---------------------------- MODULE Spec2Model ----------------------------
(***************************************************************************)
(* A model of the DXCC tracker: the entity directory and callsign          *)
(* resolver (app/dxcc_prefixes.py), the ADIF parser and import pipeline    *)
(* (app/adif_import.py), the QSO store (app/database.py) and the UI's      *)
(* store-writing handlers (app/main.py).                                   *)
(*                                                                         *)
(* Python strings that the code inspects character by character (calls,    *)
(* prefixes, dates, bands, ADIF field values) are sequences of one-        *)
(* character strings; strings that are only compared or passed on (entity  *)
(* ids, names, statuses already derived) are TLA+ strings.  An optional    *)
(* value is a sequence of length at most one: << >> is Python's None (or   *)
(* SQL NULL) and <<v>> is the value v.                                     *)
(***************************************************************************)
EXTENDS Integers, Sequences, FiniteSets, TLC

VARIABLES
    DXCC_ENTITIES,      \* dxcc_prefixes.DXCC_ENTITIES: key -> DXCCEntity
    DXCC_PREFIX_RULES,  \* dxcc_prefixes.DXCC_PREFIX_RULES: list of PrefixRule
    loader,             \* the load_extended_data call in progress, if any
    lookup,             \* the resolver query and what each helper returned
    qsos,               \* the qsos table
    imp,                \* the adif_import.import_adif run: position and counters
    all_rows,           \* main(): the in-memory table rows of the logged-in user
    ui,                 \* main(): the ADIF import of the UI, its position
    obs,                \* what is recorded about the run for the properties
    coarse,             \* the coarse (numeric-id) tier of the directory
    strftime_pads,      \* the C library's strftime("%Y") pads years below 1000
    parse,              \* a parse_adif_file call: its file and its result
    user_profile,       \* the user_profile table
    profile_obs,        \* what was set last for each user, the last get
    dxcc_db,            \* dxcc.db: the committed dxcc_entities and dxcc_prefixes
    dxcc_imp,           \* the import_dxcc run: position, transaction, outcome
    stats               \* the last aggregation query and what it returned

dirVars == <<DXCC_ENTITIES, DXCC_PREFIX_RULES, loader, lookup>>

storeVars == <<qsos, imp, all_rows, ui, obs>>

uiVars == <<all_rows, ui>>

profileVars == <<user_profile, profile_obs>>

dxccVars == <<dxcc_db, dxcc_imp>>

auxVars == <<coarse, strftime_pads, parse, profileVars, dxccVars, stats>>

vars == <<dirVars, storeVars, auxVars>>

---------------------------------------------------------------------------
(* Optional values and Python truthiness *)

None == << >>

Some(v) == <<v>>

\* `if x:` for an optional name or id: None and the empty string are falsy
Truthy(o) == o # None /\ o[1] # ""

---------------------------------------------------------------------------
(* Character strings *)

LowerAlpha ==
    <<"a", "b", "c", "d", "e", "f", "g", "h", "i", "j", "k", "l", "m",
      "n", "o", "p", "q", "r", "s", "t", "u", "v", "w", "x", "y", "z">>

UpperAlpha ==
    <<"A", "B", "C", "D", "E", "F", "G", "H", "I", "J", "K", "L", "M",
      "N", "O", "P", "Q", "R", "S", "T", "U", "V", "W", "X", "Y", "Z">>

Whitespace == {" ", "\t", "\n", "\r"}

\* the upper-case and the lower-case letter of each letter
ToUpper ==
    [c \in {LowerAlpha[i] : i \in 1..Len(LowerAlpha)} |->
        UpperAlpha[CHOOSE i \in 1..Len(LowerAlpha) : LowerAlpha[i] = c]]

ToLower ==
    [c \in {UpperAlpha[i] : i \in 1..Len(UpperAlpha)} |->
        LowerAlpha[CHOOSE i \in 1..Len(UpperAlpha) : UpperAlpha[i] = c]]

UpperChar(c) == IF c \in DOMAIN ToUpper THEN ToUpper[c] ELSE c

LowerChar(c) == IF c \in DOMAIN ToLower THEN ToLower[c] ELSE c

\* str.upper()
StrUpper(s) == [i \in 1..Len(s) |-> UpperChar(s[i])]

\* str.lower()
StrLower(s) == [i \in 1..Len(s) |-> LowerChar(s[i])]

\* str.strip(): drop leading and trailing whitespace
StrStrip(s) ==
    LET keep == {i \in 1..Len(s) : s[i] \notin Whitespace}
    IN  IF keep = {} THEN << >>
        ELSE LET lo == CHOOSE i \in keep : \A j \in keep : i <= j
                 hi == CHOOSE i \in keep : \A j \in keep : i >= j
             IN  SubSeq(s, lo, hi)

\* str.startswith(p)
StartsWith(s, p) == Len(p) <= Len(s) /\ SubSeq(s, 1, Len(p)) = p

\* every string over alphabet A of length at most n
StringsUpTo(A, n) == UNION {[1..k -> A] : k \in 0..n}

---------------------------------------------------------------------------
(* Data structures and built-in tables of dxcc_prefixes.py *)

DXCCEntity(id, name, active) == [id |-> id, name |-> name, active |-> active]

PrefixRule(prefix, entity_id) == [prefix |-> prefix, entity_id |-> entity_id]

BUILTIN_ENTITIES ==
       ("USA" :> DXCCEntity("USA", "United States", TRUE))
    @@ ("ALASKA" :> DXCCEntity("ALASKA", "Alaska", TRUE))
    @@ ("HAWAII" :> DXCCEntity("HAWAII", "Hawaii", TRUE))
    @@ ("PUERTO_RICO" :> DXCCEntity("PUERTO_RICO", "Puerto Rico", TRUE))
    @@ ("US_VIRGIN" :> DXCCEntity("US_VIRGIN", "US Virgin Islands", TRUE))
    @@ ("GUANTANAMO" :> DXCCEntity("GUANTANAMO", "Guantanamo Bay", TRUE))
    @@ ("CANADA" :> DXCCEntity("CANADA", "Canada", TRUE))
    @@ ("MEXICO" :> DXCCEntity("MEXICO", "Mexico", TRUE))
    @@ ("BERMUDA" :> DXCCEntity("BERMUDA", "Bermuda", TRUE))
    @@ ("GREENLAND" :> DXCCEntity("GREENLAND", "Greenland", TRUE))
    @@ ("ST_PIERRE_MIQUELON" :> DXCCEntity("SPM", "St Pierre & Miquelon", TRUE))
    @@ ("CAYMAN" :> DXCCEntity("CAYMAN", "Cayman Islands", TRUE))
    @@ ("BAHAMAS" :> DXCCEntity("BAHAMAS", "Bahamas", TRUE))
    @@ ("BARBADOS" :> DXCCEntity("BARBADOS", "Barbados", TRUE))
    @@ ("TURKS_CAICOS" :> DXCCEntity("TURKS_CAICOS", "Turks & Caicos", TRUE))
    @@ ("ENGLAND" :> DXCCEntity("ENGLAND", "England", TRUE))
    @@ ("SCOTLAND" :> DXCCEntity("SCOTLAND", "Scotland", TRUE))
    @@ ("WALES" :> DXCCEntity("WALES", "Wales", TRUE))
    @@ ("N_IRELAND" :> DXCCEntity("N_IRELAND", "Northern Ireland", TRUE))
    @@ ("ISLE_OF_MAN" :> DXCCEntity("ISLE_OF_MAN", "Isle of Man", TRUE))
    @@ ("GUERNSEY" :> DXCCEntity("GUERNSEY", "Guernsey", TRUE))
    @@ ("JERSEY" :> DXCCEntity("JERSEY", "Jersey", TRUE))
    @@ ("FRANCE" :> DXCCEntity("FRANCE", "France", TRUE))
    @@ ("CORSICA" :> DXCCEntity("CORSICA", "Corsica", TRUE))
    @@ ("MONACO" :> DXCCEntity("MONACO", "Monaco", TRUE))
    @@ ("SPAIN" :> DXCCEntity("SPAIN", "Spain", TRUE))
    @@ ("PORTUGAL" :> DXCCEntity("PORTUGAL", "Portugal", TRUE))
    @@ ("ITALY" :> DXCCEntity("ITALY", "Italy", TRUE))
    @@ ("SARDINIA" :> DXCCEntity("SARDINIA", "Sardinia", TRUE))
    @@ ("SICILY" :> DXCCEntity("SICILY", "Sicily", TRUE))
    @@ ("GERMANY" :> DXCCEntity("GERMANY", "Germany", TRUE))
    @@ ("AUSTRIA" :> DXCCEntity("AUSTRIA", "Austria", TRUE))
    @@ ("SWITZERLAND" :> DXCCEntity("SWITZERLAND", "Switzerland", TRUE))
    @@ ("BELGIUM" :> DXCCEntity("BELGIUM", "Belgium", TRUE))
    @@ ("NETHERLANDS" :> DXCCEntity("NETHERLANDS", "Netherlands", TRUE))
    @@ ("LUXEMBOURG" :> DXCCEntity("LUXEMBOURG", "Luxembourg", TRUE))
    @@ ("DENMARK" :> DXCCEntity("DENMARK", "Denmark", TRUE))
    @@ ("NORWAY" :> DXCCEntity("NORWAY", "Norway", TRUE))
    @@ ("SWEDEN" :> DXCCEntity("SWEDEN", "Sweden", TRUE))
    @@ ("FINLAND" :> DXCCEntity("FINLAND", "Finland", TRUE))
    @@ ("POLAND" :> DXCCEntity("POLAND", "Poland", TRUE))
    @@ ("CZECH" :> DXCCEntity("CZECH", "Czech Republic", TRUE))
    @@ ("SLOVAKIA" :> DXCCEntity("SLOVAKIA", "Slovakia", TRUE))
    @@ ("HUNGARY" :> DXCCEntity("HUNGARY", "Hungary", TRUE))
    @@ ("ROMANIA" :> DXCCEntity("ROMANIA", "Romania", TRUE))
    @@ ("BULGARIA" :> DXCCEntity("BULGARIA", "Bulgaria", TRUE))
    @@ ("UKRAINE" :> DXCCEntity("UKRAINE", "Ukraine", TRUE))
    @@ ("RUSSIA_EU" :> DXCCEntity("RUSSIA_EU", "European Russia", TRUE))
    @@ ("RUSSIA_AS" :> DXCCEntity("RUSSIA_AS", "Asiatic Russia", TRUE))
    @@ ("JAPAN" :> DXCCEntity("JAPAN", "Japan", TRUE))
    @@ ("KOREA_S" :> DXCCEntity("KOREA_S", "South Korea", TRUE))
    @@ ("CHINA" :> DXCCEntity("CHINA", "China", TRUE))
    @@ ("TAIWAN" :> DXCCEntity("TAIWAN", "Taiwan", TRUE))
    @@ ("HONG_KONG" :> DXCCEntity("HONG_KONG", "Hong Kong", TRUE))
    @@ ("MACAU" :> DXCCEntity("MACAU", "Macau", TRUE))
    @@ ("PHILIPPINES" :> DXCCEntity("PHILIPPINES", "Philippines", TRUE))
    @@ ("THAILAND" :> DXCCEntity("THAILAND", "Thailand", TRUE))
    @@ ("VIETNAM" :> DXCCEntity("VIETNAM", "Vietnam", TRUE))
    @@ ("CAMBODIA" :> DXCCEntity("CAMBODIA", "Cambodia", TRUE))
    @@ ("LAOS" :> DXCCEntity("LAOS", "Laos", TRUE))
    @@ ("MALAYSIA_W" :> DXCCEntity("MALAYSIA_W", "West Malaysia", TRUE))
    @@ ("MALAYSIA_E" :> DXCCEntity("MALAYSIA_E", "East Malaysia", TRUE))
    @@ ("SINGAPORE" :> DXCCEntity("SINGAPORE", "Singapore", TRUE))
    @@ ("INDIA" :> DXCCEntity("INDIA", "India", TRUE))
    @@ ("SRI_LANKA" :> DXCCEntity("SRI_LANKA", "Sri Lanka", TRUE))
    @@ ("VK_MAIN" :> DXCCEntity("VK_MAIN", "Australia", TRUE))
    @@ ("VK0_HEARD" :> DXCCEntity("VK0_HEARD", "Heard Island", TRUE))
    @@ ("VK0_MACQ" :> DXCCEntity("VK0_MACQ", "Macquarie Island", TRUE))
    @@ ("VK9_NORFOLK" :> DXCCEntity("VK9_NORFOLK", "Norfolk Island", TRUE))
    @@ ("VK9_LORD_HOWE" :> DXCCEntity("VK9_LORD_HOWE", "Lord Howe Island", TRUE))
    @@ ("VK9_CHRISTMAS" :> DXCCEntity("VK9_CHRISTMAS", "Christmas Island", TRUE))
    @@ ("VK9_COCOS" :> DXCCEntity("VK9_COCOS", "Cocos (Keeling) Islands", TRUE))
    @@ ("ZL_MAIN" :> DXCCEntity("ZL_MAIN", "New Zealand", TRUE))
    @@ ("ZL7_CHATHAM" :> DXCCEntity("ZL7_CHATHAM", "Chatham Islands", TRUE))
    @@ ("ZL8_KERMADEC" :> DXCCEntity("ZL8_KERMADEC", "Kermadec Islands", TRUE))
    @@ ("ZL9_AUCKLAND" :> DXCCEntity("ZL9_AUCKLAND", "Auckland & Campbell Islands", TRUE))
    @@ ("FIJI" :> DXCCEntity("FIJI", "Fiji", TRUE))
    @@ ("AMERICAN_SAMOA" :> DXCCEntity("AMERICAN_SAMOA", "American Samoa", TRUE))
    @@ ("SAMOA" :> DXCCEntity("SAMOA", "Samoa", TRUE))
    @@ ("TONGA" :> DXCCEntity("TONGA", "Tonga", TRUE))
    @@ ("COOK_N" :> DXCCEntity("COOK_N", "North Cook Islands", TRUE))
    @@ ("COOK_S" :> DXCCEntity("COOK_S", "South Cook Islands", TRUE))
    @@ ("SOUTH_AFRICA" :> DXCCEntity("SOUTH_AFRICA", "South Africa", TRUE))
    @@ ("NAMIBIA" :> DXCCEntity("NAMIBIA", "Namibia", TRUE))
    @@ ("BOTSWANA" :> DXCCEntity("BOTSWANA", "Botswana", TRUE))
    @@ ("ZIMBABWE" :> DXCCEntity("ZIMBABWE", "Zimbabwe", TRUE))
    @@ ("ANGOLA" :> DXCCEntity("ANGOLA", "Angola", TRUE))
    @@ ("KENYA" :> DXCCEntity("KENYA", "Kenya", TRUE))
    @@ ("TANZANIA" :> DXCCEntity("TANZANIA", "Tanzania", TRUE))
    @@ ("ETHIOPIA" :> DXCCEntity("ETHIOPIA", "Ethiopia", TRUE))
    @@ ("MADAGASCAR" :> DXCCEntity("MADAGASCAR", "Madagascar", TRUE))
    @@ ("ARGENTINA" :> DXCCEntity("ARGENTINA", "Argentina", TRUE))
    @@ ("BRAZIL" :> DXCCEntity("BRAZIL", "Brazil", TRUE))
    @@ ("CHILE" :> DXCCEntity("CHILE", "Chile", TRUE))
    @@ ("URUGUAY" :> DXCCEntity("URUGUAY", "Uruguay", TRUE))
    @@ ("PARAGUAY" :> DXCCEntity("PARAGUAY", "Paraguay", TRUE))
    @@ ("PERU" :> DXCCEntity("PERU", "Peru", TRUE))
    @@ ("COLOMBIA" :> DXCCEntity("COLOMBIA", "Colombia", TRUE))
    @@ ("ECUADOR" :> DXCCEntity("ECUADOR", "Ecuador", TRUE))
    @@ ("GALAPAGOS" :> DXCCEntity("GALAPAGOS", "Galapagos Islands", TRUE))
    @@ ("HONDURAS" :> DXCCEntity("HONDURAS", "Honduras", TRUE))
    @@ ("GUATEMALA" :> DXCCEntity("GUATEMALA", "Guatemala", TRUE))
    @@ ("EL_SALVADOR" :> DXCCEntity("EL_SALVADOR", "El Salvador", TRUE))
    @@ ("NICARAGUA" :> DXCCEntity("NICARAGUA", "Nicaragua", TRUE))
    @@ ("COSTA_RICA" :> DXCCEntity("COSTA_RICA", "Costa Rica", TRUE))
    @@ ("PANAMA" :> DXCCEntity("PANAMA", "Panama", TRUE))
    @@ ("CUBA" :> DXCCEntity("CUBA", "Cuba", TRUE))
    @@ ("DOMINICAN" :> DXCCEntity("DOMINICAN", "Dominican Republic", TRUE))
    @@ ("HAITI" :> DXCCEntity("HAITI", "Haiti", TRUE))
    @@ ("E_GERMANY" :> DXCCEntity("E_GERMANY", "East Germany", FALSE))
    @@ ("W_GERMANY" :> DXCCEntity("W_GERMANY", "West Germany", FALSE))
    @@ ("CZECHOSLOVAKIA" :> DXCCEntity("CZECHOSLOVAKIA", "Czechoslovakia", FALSE))
    @@ ("YUGOSLAVIA" :> DXCCEntity("YUGOSLAVIA", "Yugoslavia", FALSE))
    @@ ("USSR" :> DXCCEntity("USSR", "USSR", FALSE))
    @@ ("CANAL_ZONE" :> DXCCEntity("CANAL_ZONE", "Panama Canal Zone", FALSE))
    @@ ("RHODESIA" :> DXCCEntity("RHODESIA", "Southern Rhodesia", FALSE))
    @@ ("SAAR" :> DXCCEntity("SAAR", "Saar", FALSE))

BUILTIN_PREFIX_RULES ==
       <<
        PrefixRule(<<"K", "H", "6">>, "HAWAII"),
        PrefixRule(<<"K", "H", "7">>, "HAWAII"),
        PrefixRule(<<"K", "L", "7">>, "ALASKA"),
        PrefixRule(<<"A", "L", "7">>, "ALASKA"),
        PrefixRule(<<"N", "L", "7">>, "ALASKA"),
        PrefixRule(<<"W", "L", "7">>, "ALASKA"),
        PrefixRule(<<"K", "P", "4">>, "PUERTO_RICO"),
        PrefixRule(<<"N", "P", "4">>, "PUERTO_RICO"),
        PrefixRule(<<"W", "P", "4">>, "PUERTO_RICO"),
        PrefixRule(<<"K", "P", "2">>, "US_VIRGIN"),
        PrefixRule(<<"N", "P", "2">>, "US_VIRGIN"),
        PrefixRule(<<"W", "P", "2">>, "US_VIRGIN"),
        PrefixRule(<<"K", "G", "4">>, "GUANTANAMO"),
        PrefixRule(<<"A", "A">>, "USA"),
        PrefixRule(<<"A", "B">>, "USA"),
        PrefixRule(<<"A", "C">>, "USA"),
        PrefixRule(<<"A", "D">>, "USA"),
        PrefixRule(<<"A", "E">>, "USA"),
        PrefixRule(<<"A", "F">>, "USA"),
        PrefixRule(<<"A", "G">>, "USA"),
        PrefixRule(<<"A", "J">>, "USA"),
        PrefixRule(<<"A", "K">>, "USA"),
        PrefixRule(<<"K">>, "USA"),
        PrefixRule(<<"N">>, "USA"),
        PrefixRule(<<"W">>, "USA"),
        PrefixRule(<<"V", "O", "1">>, "CANADA"),
        PrefixRule(<<"V", "O", "2">>, "CANADA"),
        PrefixRule(<<"V", "Y", "0">>, "CANADA"),
        PrefixRule(<<"V", "Y", "1">>, "CANADA"),
        PrefixRule(<<"V", "Y", "2">>, "CANADA"),
        PrefixRule(<<"V", "A">>, "CANADA"),
        PrefixRule(<<"V", "E">>, "CANADA"),
        PrefixRule(<<"V", "O">>, "CANADA"),
        PrefixRule(<<"V", "Y">>, "CANADA"),
        PrefixRule(<<"X", "E">>, "MEXICO"),
        PrefixRule(<<"X", "F">>, "MEXICO"),
        PrefixRule(<<"V", "P", "9">>, "BERMUDA"),
        PrefixRule(<<"Z", "F">>, "CAYMAN"),
        PrefixRule(<<"C", "6", "A">>, "BAHAMAS"),
        PrefixRule(<<"8", "P">>, "BARBADOS"),
        PrefixRule(<<"V", "P", "5">>, "TURKS_CAICOS"),
        PrefixRule(<<"G", "M">>, "SCOTLAND"),
        PrefixRule(<<"G", "S">>, "SCOTLAND"),
        PrefixRule(<<"G", "W">>, "WALES"),
        PrefixRule(<<"G", "N">>, "N_IRELAND"),
        PrefixRule(<<"G", "I">>, "N_IRELAND"),
        PrefixRule(<<"G", "D">>, "ISLE_OF_MAN"),
        PrefixRule(<<"G", "U">>, "GUERNSEY"),
        PrefixRule(<<"G", "P">>, "GUERNSEY"),
        PrefixRule(<<"G", "J">>, "JERSEY"),
        PrefixRule(<<"G", "H">>, "JERSEY"),
        PrefixRule(<<"G">>, "ENGLAND"),
        PrefixRule(<<"T", "K">>, "CORSICA"),
        PrefixRule(<<"F">>, "FRANCE"),
        PrefixRule(<<"E", "A", "8">>, "SPAIN"),
        PrefixRule(<<"E", "A", "9">>, "SPAIN"),
        PrefixRule(<<"E", "A">>, "SPAIN"),
        PrefixRule(<<"C", "T">>, "PORTUGAL")
       >>
    \o (IF "MADEIRA" \in DOMAIN BUILTIN_ENTITIES THEN <<PrefixRule(<<"C", "T", "3">>, "MADEIRA")>> ELSE <<>>)
    \o <<
        PrefixRule(<<"I", "S", "0">>, "SARDINIA"),
        PrefixRule(<<"I", "T", "9">>, "SICILY"),
        PrefixRule(<<"I">>, "ITALY"),
        PrefixRule(<<"D", "L">>, "GERMANY"),
        PrefixRule(<<"O", "E">>, "AUSTRIA"),
        PrefixRule(<<"H", "B">>, "SWITZERLAND"),
        PrefixRule(<<"O", "N">>, "BELGIUM"),
        PrefixRule(<<"P", "A">>, "NETHERLANDS"),
        PrefixRule(<<"L", "X">>, "LUXEMBOURG"),
        PrefixRule(<<"O", "Z">>, "DENMARK"),
        PrefixRule(<<"L", "A">>, "NORWAY"),
        PrefixRule(<<"L", "N">>, "NORWAY"),
        PrefixRule(<<"S", "M">>, "SWEDEN"),
        PrefixRule(<<"O", "H">>, "FINLAND"),
        PrefixRule(<<"S", "P">>, "POLAND"),
        PrefixRule(<<"O", "K">>, "CZECH"),
        PrefixRule(<<"O", "L">>, "CZECH"),
        PrefixRule(<<"O", "M">>, "SLOVAKIA"),
        PrefixRule(<<"H", "A">>, "HUNGARY"),
        PrefixRule(<<"Y", "O">>, "ROMANIA"),
        PrefixRule(<<"L", "Z">>, "BULGARIA"),
        PrefixRule(<<"U", "R">>, "UKRAINE"),
        PrefixRule(<<"U", "X">>, "UKRAINE"),
        PrefixRule(<<"U", "A", "0">>, "RUSSIA_AS"),
        PrefixRule(<<"R", "A", "0">>, "RUSSIA_AS"),
        PrefixRule(<<"R", "0">>, "RUSSIA_AS"),
        PrefixRule(<<"U", "A">>, "RUSSIA_EU"),
        PrefixRule(<<"R", "A">>, "RUSSIA_EU"),
        PrefixRule(<<"R">>, "RUSSIA_EU"),
        PrefixRule(<<"J", "A">>, "JAPAN"),
        PrefixRule(<<"J", "E">>, "JAPAN"),
        PrefixRule(<<"J", "F">>, "JAPAN"),
        PrefixRule(<<"J", "G">>, "JAPAN"),
        PrefixRule(<<"J", "H">>, "JAPAN"),
        PrefixRule(<<"J", "I">>, "JAPAN"),
        PrefixRule(<<"J", "J">>, "JAPAN"),
        PrefixRule(<<"J", "K">>, "JAPAN"),
        PrefixRule(<<"J", "L">>, "JAPAN"),
        PrefixRule(<<"J", "M">>, "JAPAN"),
        PrefixRule(<<"J", "N">>, "JAPAN"),
        PrefixRule(<<"J", "O">>, "JAPAN"),
        PrefixRule(<<"H", "L">>, "KOREA_S"),
        PrefixRule(<<"D", "S">>, "KOREA_S"),
        PrefixRule(<<"D", "T">>, "KOREA_S"),
        PrefixRule(<<"B", "Y">>, "CHINA"),
        PrefixRule(<<"B", "A">>, "CHINA"),
        PrefixRule(<<"B", "D">>, "CHINA"),
        PrefixRule(<<"B", "G">>, "CHINA"),
        PrefixRule(<<"B", "H">>, "CHINA"),
        PrefixRule(<<"B", "I">>, "CHINA"),
        PrefixRule(<<"B">>, "CHINA"),
        PrefixRule(<<"B", "V">>, "TAIWAN"),
        PrefixRule(<<"V", "R">>, "HONG_KONG"),
        PrefixRule(<<"X", "X", "9">>, "MACAU"),
        PrefixRule(<<"D", "U">>, "PHILIPPINES"),
        PrefixRule(<<"4", "I">>, "PHILIPPINES"),
        PrefixRule(<<"H", "S">>, "THAILAND"),
        PrefixRule(<<"E", "2">>, "THAILAND"),
        PrefixRule(<<"3", "W">>, "VIETNAM"),
        PrefixRule(<<"X", "V">>, "VIETNAM"),
        PrefixRule(<<"X", "U">>, "CAMBODIA"),
        PrefixRule(<<"X", "W">>, "LAOS"),
        PrefixRule(<<"9", "M", "2">>, "MALAYSIA_W"),
        PrefixRule(<<"9", "M", "4">>, "MALAYSIA_W"),
        PrefixRule(<<"9", "M", "6">>, "MALAYSIA_E"),
        PrefixRule(<<"9", "M", "8">>, "MALAYSIA_E"),
        PrefixRule(<<"9", "V">>, "SINGAPORE"),
        PrefixRule(<<"V", "U">>, "INDIA"),
        PrefixRule(<<"V", "U", "2">>, "INDIA"),
        PrefixRule(<<"V", "U", "3">>, "INDIA"),
        PrefixRule(<<"4", "S">>, "SRI_LANKA"),
        PrefixRule(<<"V", "K", "0", "H">>, "VK0_HEARD"),
        PrefixRule(<<"V", "K", "0", "M">>, "VK0_MACQ"),
        PrefixRule(<<"V", "K", "9", "X">>, "VK9_CHRISTMAS"),
        PrefixRule(<<"V", "K", "9", "C">>, "VK9_COCOS"),
        PrefixRule(<<"V", "K", "9", "L">>, "VK9_LORD_HOWE"),
        PrefixRule(<<"V", "K", "9", "N">>, "VK9_NORFOLK"),
        PrefixRule(<<"V", "K">>, "VK_MAIN"),
        PrefixRule(<<"Z", "L", "7">>, "ZL7_CHATHAM"),
        PrefixRule(<<"Z", "L", "8">>, "ZL8_KERMADEC"),
        PrefixRule(<<"Z", "L", "9">>, "ZL9_AUCKLAND"),
        PrefixRule(<<"Z", "L">>, "ZL_MAIN"),
        PrefixRule(<<"3", "D", "2">>, "FIJI"),
        PrefixRule(<<"K", "H", "8">>, "AMERICAN_SAMOA"),
        PrefixRule(<<"5", "W">>, "SAMOA"),
        PrefixRule(<<"A", "3">>, "TONGA"),
        PrefixRule(<<"Z", "S">>, "SOUTH_AFRICA"),
        PrefixRule(<<"V", "5">>, "NAMIBIA"),
        PrefixRule(<<"A", "2">>, "BOTSWANA"),
        PrefixRule(<<"Z", "2">>, "ZIMBABWE"),
        PrefixRule(<<"D", "2">>, "ANGOLA"),
        PrefixRule(<<"5", "Z">>, "KENYA"),
        PrefixRule(<<"5", "H">>, "TANZANIA"),
        PrefixRule(<<"E", "T">>, "ETHIOPIA"),
        PrefixRule(<<"5", "R">>, "MADAGASCAR"),
        PrefixRule(<<"L", "U">>, "ARGENTINA"),
        PrefixRule(<<"L", "W">>, "ARGENTINA"),
        PrefixRule(<<"P", "P">>, "BRAZIL"),
        PrefixRule(<<"P", "Q">>, "BRAZIL"),
        PrefixRule(<<"P", "R">>, "BRAZIL"),
        PrefixRule(<<"P", "S">>, "BRAZIL"),
        PrefixRule(<<"P", "T">>, "BRAZIL"),
        PrefixRule(<<"P", "U">>, "BRAZIL"),
        PrefixRule(<<"C", "E">>, "CHILE"),
        PrefixRule(<<"C", "E", "0", "Y">>, "GALAPAGOS"),
        PrefixRule(<<"H", "C">>, "ECUADOR"),
        PrefixRule(<<"H", "C", "8">>, "GALAPAGOS"),
        PrefixRule(<<"H", "K">>, "COLOMBIA"),
        PrefixRule(<<"O", "A">>, "PERU"),
        PrefixRule(<<"O", "A", "0">>, "PERU"),
        PrefixRule(<<"T", "G">>, "GUATEMALA"),
        PrefixRule(<<"H", "R">>, "HONDURAS"),
        PrefixRule(<<"Y", "S">>, "EL_SALVADOR"),
        PrefixRule(<<"Y", "N">>, "NICARAGUA"),
        PrefixRule(<<"T", "I">>, "COSTA_RICA"),
        PrefixRule(<<"H", "P">>, "PANAMA"),
        PrefixRule(<<"C", "M">>, "CUBA"),
        PrefixRule(<<"C", "O">>, "CUBA"),
        PrefixRule(<<"T", "4">>, "CUBA"),
        PrefixRule(<<"H", "I">>, "DOMINICAN"),
        PrefixRule(<<"H", "H">>, "HAITI"),
        PrefixRule(<<"Y", "2">>, "E_GERMANY"),
        PrefixRule(<<"D", "M">>, "E_GERMANY"),
        PrefixRule(<<"D", "A", "1">>, "E_GERMANY"),
        PrefixRule(<<"D", "L", "2">>, "W_GERMANY"),
        PrefixRule(<<"O", "K", "3">>, "CZECHOSLOVAKIA"),
        PrefixRule(<<"O", "M", "8">>, "CZECHOSLOVAKIA"),
        PrefixRule(<<"Y", "U">>, "YUGOSLAVIA"),
        PrefixRule(<<"U", "C">>, "USSR"),
        PrefixRule(<<"U", "A", "3">>, "USSR")
       >>

---------------------------------------------------------------------------
(* Lookup helpers *)

normalize_call(call) == StrUpper(StrStrip(call))

\* the `for rule in DXCC_PREFIX_RULES` scan: index of the first rule of the list
\* whose prefix c starts with, 0 when there is none
FirstMatch(c, rules) ==
    LET hits == {i \in 1..Len(rules) : StartsWith(c, rules[i].prefix)}
    IN  IF hits = {} THEN 0
        ELSE CHOOSE i \in hits : \A j \in hits : i <= j

lookup_entity_id_from_call(call, rules) ==
    LET c == normalize_call(call)
    IN  IF c = << >> THEN None
        ELSE LET k == FirstMatch(c, rules)
             IN  IF k = 0 THEN None ELSE Some(rules[k].entity_id)

\* lookup_entity_from_call without its `if ent is None` guard: an entity is made
\* up from the id
lookup_entity_from_call_unguarded(call, rules, entities) ==
    LET eid == lookup_entity_id_from_call(call, rules)
    IN  IF ~Truthy(eid) THEN None
        ELSE IF eid[1] \notin DOMAIN entities
        THEN Some(<<DXCCEntity(eid[1], eid[1], TRUE), eid[1]>>)
        ELSE Some(<<entities[eid[1]], entities[eid[1]].name>>)

lookup_entity_from_call(call, rules, entities) ==
    LET eid == lookup_entity_id_from_call(call, rules)
    IN  IF ~Truthy(eid) THEN None
        ELSE IF eid[1] \notin DOMAIN entities THEN None
        ELSE Some(<<entities[eid[1]], entities[eid[1]].name>>)

\* main.dxcc_from_call: (entity_id, entity_name, active_flag) or (None, None, None)
dxcc_from_call(call, rules, entities) ==
    LET info == lookup_entity_from_call(call, rules, entities)
    IN  IF info = None THEN <<None, None, None>>
        ELSE <<Some(info[1][1].id), Some(info[1][2]), Some(info[1][1].active)>>

\* a resolver that scans both tiers as one list and takes a longest match
TierMatch_merged(c, rules) ==
    LET all == rules \o coarse.rules
        hits == {i \in 1..Len(all) : StartsWith(c, all[i].prefix)}
        best == CHOOSE i \in hits :
                    \A j \in hits :
                        \/ Len(all[j].prefix) < Len(all[i].prefix)
                        \/ Len(all[j].prefix) = Len(all[i].prefix) /\ i <= j
    IN  IF c = << >> \/ hits = {} THEN <<0, 0>>
        ELSE IF best <= Len(rules) THEN <<1, best>>
        ELSE <<2, best - Len(rules)>>

\* The resolver database.py calls (dxcc_prefixes.resolve_callsign and
\* entity_for_callsign) is defined in no source file.  It scans two tiers: the
\* detailed rules first and, only when none of them matches, the rules of the
\* coarse tier; within a tier the first rule the call starts with decides.
\* The result is <<tier, index>>, tier 0 when no rule of either tier matches.
TierMatch(c, rules) ==
    LET detailed == FirstMatch(c, rules)
        fallback == FirstMatch(c, coarse.rules)
    IN  IF c = << >> THEN <<0, 0>>
        ELSE IF detailed # 0 THEN <<1, detailed>>
        ELSE IF fallback # 0 THEN <<2, fallback>>
        ELSE <<0, 0>>

\* the rule and the entity (None when the directory of the tier lacks it) the
\* scan settles on
TierRule(m, rules) == IF m[1] = 1 THEN rules[m[2]] ELSE coarse.rules[m[2]]

TierEntity(m, rules, entities) ==
    LET eid == TierRule(m, rules).entity_id
        tbl == IF m[1] = 1 THEN entities ELSE coarse.entities
    IN  IF eid \in DOMAIN tbl THEN Some(tbl[eid]) ELSE None

\* dxcc_prefixes.resolve_callsign: (matched prefix, entity name, active) when
\* the call resolves to an entity of the directory, (None, None, False)
\* otherwise.
resolve_callsign(call, rules, entities) ==
    LET m == TierMatch(normalize_call(call), rules)
        e == TierEntity(m, rules, entities)
    IN  IF m[1] = 0 \/ e = None THEN <<None, None, FALSE>>
        ELSE <<Some(TierRule(m, rules).prefix), Some(e[1].name), e[1].active>>

\* dxcc_prefixes.entity_for_callsign: (entity id, name, active), and
\* (None, "Unknown", False) when unresolved
entity_for_callsign(call, rules, entities) ==
    LET m == TierMatch(normalize_call(call), rules)
        e == TierEntity(m, rules, entities)
    IN  IF m[1] = 0 \/ e = None THEN <<None, "Unknown", FALSE>>
        ELSE <<Some(e[1].id), e[1].name, e[1].active>>

\* database.resolve_prefix_and_country: (prefix, country, deleted)
resolve_prefix_and_country(call_worked, fallback_country, rules, entities) ==
    LET unresolved ==
            <<None, IF Truthy(fallback_country) THEN fallback_country[1]
                    ELSE "Unknown", FALSE>>
    IN  IF call_worked = << >> THEN unresolved
        ELSE LET r == resolve_callsign(call_worked, rules, entities)
             IN  IF Truthy(r[2]) THEN <<r[1], r[2][1], ~r[3]>>
                 ELSE unresolved

---------------------------------------------------------------------------
(* load_extended_data and the JSON files it may find in base_dir *)

JsonAbsent == [kind |-> "absent"]

JsonInvalid == [kind |-> "invalid"]

JsonList(data) == [kind |-> "list", data |-> data]

\* contents of data/dxcc_entities.json the loader is run against
EntityJsons ==
    << JsonAbsent,
       JsonList(<< >>),
       JsonList(<< [id |-> "USA", name |-> "United States"],
                   [id |-> "SAAR", name |-> "Saar", active |-> FALSE],
                   [id |-> "AMERICAN_SAMOA", name |-> "Samoa", active |-> TRUE],
                   [id |-> "AMERICAN_SAMOA", name |-> "American Samoa",
                    active |-> TRUE] >>),
       JsonList(<< [id |-> "HAITI", name |-> "Haiti", active |-> TRUE],
                   [id |-> "USA"] >>),
       JsonInvalid >>

\* contents of data/dxcc_prefixes.json the loader is run against
PrefixJsons ==
    << JsonAbsent,
       JsonList(<< >>),
       JsonList(<< [prefix |-> <<"K">>, entity_id |-> "USA"],
                   [prefix |-> <<"H">>, entity_id |-> "GHOST"],
                   [prefix |-> <<"k", "h", "8">>, entity_id |-> "AMERICAN_SAMOA"],
                   [prefix |-> <<"K", "H">>, entity_id |-> "SAAR"] >>),
       JsonList(<< [prefix |-> <<"K">>, entity_id |-> "USA"],
                   [prefix |-> <<"H">>] >>),
       JsonInvalid >>

\* _load_json_if_exists: None for a missing file, the parsed value otherwise;
\* json.load raises on a file that is not JSON
LoadRaises(json) == json.kind = "invalid"

_load_json_if_exists(json) ==
    IF json.kind = "list" THEN Some(json.data) ELSE None

\* `if data:` is false for None and for an empty list
DataTruthy(d) == d # None /\ d[1] # << >>

\* e["id"], e["name"] raise KeyError on an entry without the key
EntityEntryRaises(e) == ~({"id", "name"} \subseteq DOMAIN e)

\* the dict built by the loop: a later entry with the same id replaces an earlier
NewEntities(data) ==
    [k \in {data[i].id : i \in 1..Len(data)} |->
        LET last == CHOOSE i \in 1..Len(data) :
                        /\ data[i].id = k
                        /\ \A j \in 1..Len(data) : data[j].id = k => j <= i
            e    == data[last]
        IN  DXCCEntity(e.id, e.name,
                       IF "active" \in DOMAIN e THEN e.active ELSE TRUE)]

PrefixEntryRaises(r) == ~({"prefix", "entity_id"} \subseteq DOMAIN r)

\* list.sort(key=len(prefix), reverse=True): stable, longest prefix first
SortByLenDesc(rules) ==
    LET n == Len(rules)
        Rank(i) == 1 + Cardinality({j \in 1..n :
                        \/ Len(rules[j].prefix) > Len(rules[i].prefix)
                        \/ /\ Len(rules[j].prefix) = Len(rules[i].prefix)
                           /\ j < i})
    IN  [k \in 1..n |-> rules[CHOOSE i \in 1..n : Rank(i) = k]]

NewRules(data) ==
    SortByLenDesc([i \in 1..Len(data) |->
                      PrefixRule(StrUpper(data[i].prefix), data[i].entity_id)])

\* no load_extended_data call is in progress.  raised tells that the last call
\* ended with an exception; old keeps the two tables as they were when the call
\* in progress, or the call that raised, began.
LoaderIdle == [pc |-> "idle", pj |-> 1, raised |-> FALSE, old |-> << >>]

LoaderRaised(old) == [pc |-> "idle", pj |-> 1, raised |-> TRUE, old |-> old]

\* a resolver query on callsign c with fallback country fb, not yet made
Query(c, fb) ==
    [asked |-> FALSE, call |-> c, fallback |-> fb, eid |-> None,
     ent |-> None, dxcc |-> <<None, None, None>>,
     rpc |-> <<None, "Unknown", FALSE>>, efc |-> <<None, "Unknown", FALSE>>]

\* load_extended_data, entities part: the call starts with base_dir holding
\* EntityJsons[ej] and PrefixJsons[pj].  An exception ends the call.  The results
\* of a query belong to the tables it ran against: they are dropped when a table
\* is replaced, and the query can be made again.
LoadEntities(ej, pj) ==
    /\ loader.pc = "idle"
    /\ LET json   == EntityJsons[ej]
           d      == _load_json_if_exists(json)
           before == <<DXCC_ENTITIES, DXCC_PREFIX_RULES>>
           next   == [pc |-> "prefixes", pj |-> pj, raised |-> FALSE,
                      old |-> before]
       IN  IF LoadRaises(json)
           THEN /\ loader' = LoaderRaised(before)
                /\ UNCHANGED <<DXCC_ENTITIES, lookup>>
           ELSE IF ~DataTruthy(d)
           THEN /\ loader' = next
                /\ UNCHANGED <<DXCC_ENTITIES, lookup>>
           ELSE IF \E i \in 1..Len(d[1]) : EntityEntryRaises(d[1][i])
           THEN /\ loader' = LoaderRaised(before)
                /\ UNCHANGED <<DXCC_ENTITIES, lookup>>
           ELSE /\ DXCC_ENTITIES' = NewEntities(d[1])
                /\ loader' = next
                /\ lookup' = Query(lookup.call, lookup.fallback)
    /\ UNCHANGED <<DXCC_PREFIX_RULES, storeVars, auxVars>>

\* the prefixes part installs a new rule list
InstallsRules(json) ==
    /\ ~LoadRaises(json)
    /\ DataTruthy(_load_json_if_exists(json))
    /\ \A i \in 1..Len(json.data) : ~PrefixEntryRaises(json.data[i])

\* load_extended_data, prefixes part
LoadPrefixes ==
    /\ loader.pc = "prefixes"
    /\ LET json == PrefixJsons[loader.pj]
           d    == _load_json_if_exists(json)
       IN  IF LoadRaises(json)
              \/ (DataTruthy(d)
                  /\ \E i \in 1..Len(d[1]) : PrefixEntryRaises(d[1][i]))
           THEN /\ loader' = LoaderRaised(loader.old)
                /\ UNCHANGED <<DXCC_PREFIX_RULES, lookup>>
           ELSE IF ~DataTruthy(d)
           THEN /\ loader' = LoaderIdle
                /\ UNCHANGED <<DXCC_PREFIX_RULES, lookup>>
           ELSE /\ DXCC_PREFIX_RULES' = NewRules(d[1])
                /\ loader' = LoaderIdle
                /\ lookup' = Query(lookup.call, lookup.fallback)
    /\ UNCHANGED <<DXCC_ENTITIES, storeVars, auxVars>>

---------------------------------------------------------------------------
(* The coarse tier: rules over numeric DXCC codes, longest prefix first *)

NoCoarse == [rules |-> << >>, entities |-> << >>]

CoarseTiers ==
    { NoCoarse,
      [rules    |-> << PrefixRule(<<"K", "8">>, "9"),
                       PrefixRule(<<"8", "K">>, "339"),
                       PrefixRule(<<"H">>, "78"),
                       PrefixRule(<<"8">>, "515") >>,
       entities |-> [k \in {"9", "339", "78"} |->
                        DXCCEntity(k, IF k = "9" THEN "American Samoa"
                                      ELSE IF k = "339" THEN "Japan"
                                      ELSE "Haiti",
                                   k # "78")]] }

---------------------------------------------------------------------------
(* Resolver queries *)

MaxCallLen == 3

CallAlphabet == {"K", "h", "8", " "}

Calls == StringsUpTo(CallAlphabet, MaxCallLen)

Fallbacks == {None, Some("Japan")}

\* one call of each lookup helper on the callsign of the query, against the
\* tables as they are at that moment (possibly between the two parts of a load)
Lookup ==
    /\ ~lookup.asked
    /\ lookup' =
          [lookup EXCEPT
           !.asked = TRUE,
           !.eid  = lookup_entity_id_from_call(lookup.call, DXCC_PREFIX_RULES),
           !.ent  = lookup_entity_from_call(lookup.call, DXCC_PREFIX_RULES,
                                            DXCC_ENTITIES),
           !.dxcc = dxcc_from_call(lookup.call, DXCC_PREFIX_RULES, DXCC_ENTITIES),
           !.rpc  = resolve_prefix_and_country(lookup.call, lookup.fallback,
                                               DXCC_PREFIX_RULES, DXCC_ENTITIES),
           !.efc  = entity_for_callsign(lookup.call, DXCC_PREFIX_RULES,
                                        DXCC_ENTITIES)]
    /\ UNCHANGED <<DXCC_ENTITIES, DXCC_PREFIX_RULES, loader, storeVars, auxVars>>

---------------------------------------------------------------------------
(* ADIF parser (app/adif_import.py) *)

Str_160m == <<"1", "6", "0", "m">>
Str_80m  == <<"8", "0", "m">>
Str_60m  == <<"6", "0", "m">>
Str_40m  == <<"4", "0", "m">>
Str_30m  == <<"3", "0", "m">>
Str_20m  == <<"2", "0", "m">>
Str_17m  == <<"1", "7", "m">>
Str_15m  == <<"1", "5", "m">>
Str_12m  == <<"1", "2", "m">>
Str_10m  == <<"1", "0", "m">>
Str_6m   == <<"6", "m">>

SUPPORTED_BANDS ==
    <<Str_160m, Str_80m, Str_60m, Str_40m, Str_30m, Str_20m, Str_17m, Str_15m,
      Str_12m, Str_10m, Str_6m>>

Digits == <<"0", "1", "2", "3", "4", "5", "6", "7", "8", "9">>

\* str.isdigit() on a non-empty ASCII string
IsDigits(s) ==
    /\ s # << >>
    /\ \A i \in 1..Len(s) : \E d \in 1..Len(Digits) : Digits[d] = s[i]

DigitVal(c) == (CHOOSE d \in 1..Len(Digits) : Digits[d] = c) - 1

IsLeap(y) == (y % 4 = 0 /\ y % 100 # 0) \/ y % 400 = 0

DaysIn(y, m) ==
    IF m = 2 THEN (IF IsLeap(y) THEN 29 ELSE 28)
    ELSE IF m \in {4, 6, 9, 11} THEN 30 ELSE 31

\* datetime.strptime(raw, "%Y%m%d") succeeds on 8 digits
ValidYmd(raw) ==
    LET y == 1000 * DigitVal(raw[1]) + 100 * DigitVal(raw[2])
             + 10 * DigitVal(raw[3]) + DigitVal(raw[4])
        m == 10 * DigitVal(raw[5]) + DigitVal(raw[6])
        d == 10 * DigitVal(raw[7]) + DigitVal(raw[8])
    IN  y >= 1 /\ m \in 1..12 /\ d >= 1 /\ d <= DaysIn(y, m)

\* dt.strftime("%Y") of a year given by its four digits: Python hands the
\* format to the C library, which writes the year as a plain decimal number
\* (glibc) or zero-padded to four digits
strftime_Y(y4) ==
    LET nz == {i \in 1..Len(y4) : y4[i] # "0"}
    IN  IF strftime_pads \/ nz = {} THEN y4
        ELSE SubSeq(y4, CHOOSE i \in nz : \A j \in nz : i <= j, Len(y4))

\* the date string of a record: strftime("%Y-%m-%d") of a valid 8-digit date,
\* the raw value otherwise
DateStr(raw_date) ==
    IF Len(raw_date) = 8 /\ IsDigits(raw_date) /\ ValidYmd(raw_date)
    THEN strftime_Y(SubSeq(raw_date, 1, 4)) \o <<"-">>
         \o SubSeq(raw_date, 5, 6) \o <<"-">> \o SubSeq(raw_date, 7, 8)
    ELSE raw_date

EndsWith(s, p) ==
    Len(p) <= Len(s) /\ SubSeq(s, Len(s) - Len(p) + 1, Len(s)) = p

\* a band normalisation that keeps every band as written, lowercased
BandStr_keepsRaw(field) == StrStrip(StrLower(field))

\* a band normalisation that compares the value as written, not lowercased
BandStr_noLower(field) ==
    LET raw_band == StrStrip(field)
        hits == {k \in 1..Len(SUPPORTED_BANDS) :
                    raw_band = SUPPORTED_BANDS[k]}
    IN  IF hits # {}
        THEN SUPPORTED_BANDS[CHOOSE k \in hits : \A j \in hits : k <= j]
        ELSE << >>

\* the band of a record: the supported band equal to the lowercased, stripped
\* value, the empty string otherwise
BandStr(field) ==
    LET raw_band == StrStrip(StrLower(field))
        hits == {k \in 1..Len(SUPPORTED_BANDS) :
                    raw_band = StrLower(SUPPORTED_BANDS[k])}
    IN  IF (EndsWith(raw_band, <<"m">>) \/ EndsWith(raw_band, <<"c", "m">>))
           /\ hits # {}
        THEN SUPPORTED_BANDS[CHOOSE k \in hits : \A j \in hits : k <= j]
        ELSE << >>

\* a status rule that looks at QSL_SENT first
StatusStr_sentFirst(qsl_rcvd, qsl_sent, eqsl_rcvd, lotw_rcvd) ==
    LET YV  == {<<"Y">>, <<"V">>}
        YQR == {<<"Y">>, <<"Q">>, <<"R">>}
    IN  IF StrUpper(qsl_sent) \in YQR THEN "Requested"
        ELSE IF \/ StrUpper(qsl_rcvd) \in YV
                \/ StrUpper(eqsl_rcvd) \in YV
                \/ StrUpper(lotw_rcvd) \in YV
        THEN "Confirmed"
        ELSE "Needed"

\* the QSL status of a record
StatusStr(qsl_rcvd, qsl_sent, eqsl_rcvd, lotw_rcvd) ==
    LET YV  == {<<"Y">>, <<"V">>}
        YQR == {<<"Y">>, <<"Q">>, <<"R">>}
    IN  IF \/ StrUpper(qsl_rcvd) \in YV
           \/ StrUpper(eqsl_rcvd) \in YV
           \/ StrUpper(lotw_rcvd) \in YV
        THEN "Confirmed"
        ELSE IF StrUpper(qsl_sent) \in YQR THEN "Requested"
        ELSE "Needed"

\* A raw ADIF record is the sequence of its <TAG:LENGTH>VALUE fields, the tag
\* already uppercased.  The COUNTRY payload is an opaque name (the code only
\* passes it on); every other payload is a character string.
Field(tag, len, text) == [tag |-> tag, len |-> len, text |-> text]

\* m.group(3)[:length].strip()
FieldValue(f) ==
    IF f.tag = "COUNTRY" THEN f.text
    ELSE StrStrip(SubSeq(f.text, 1, IF f.len < Len(f.text) THEN f.len
                                    ELSE Len(f.text)))

\* fields.get(tag, default): the last field of the record with that tag wins
FieldGet(rec, tag, default) ==
    LET at == {i \in 1..Len(rec) : rec[i].tag = tag}
    IN  IF at = {} THEN default
        ELSE FieldValue(rec[CHOOSE i \in at : \A j \in at : i >= j])

RecordCall(rec) == StrUpper(StrStrip(FieldGet(rec, "CALL", << >>)))

\* the tuple (country, call, date, status, band) appended for a record
Candidate(rec) ==
    [country |-> FieldGet(rec, "COUNTRY", ""),
     call    |-> RecordCall(rec),
     date    |-> DateStr(FieldGet(rec, "QSO_DATE", << >>)),
     status  |-> StatusStr(FieldGet(rec, "QSL_RCVD", << >>),
                           FieldGet(rec, "QSL_SENT", << >>),
                           FieldGet(rec, "EQSL_QSL_RCVD", << >>),
                           FieldGet(rec, "LOTW_QSL_RCVD", << >>)),
     band    |-> BandStr(FieldGet(rec, "BAND", << >>))]

\* a parser that keeps the records without CALL
parse_adif_file_keepsAll(file) == [k \in 1..Len(file) |-> Candidate(file[k])]

\* parse_adif_file on a file given as the sequence of its non-empty records:
\* records without a CALL are dropped, the others kept in file order
parse_adif_file(file) ==
    LET keep == SelectSeq(file, LAMBDA rec : RecordCall(rec) # << >>)
    IN  [i \in 1..Len(keep) |-> Candidate(keep[i])]

---------------------------------------------------------------------------
(* QSO store (app/database.py): the qsos table, its rows in rowid order.     *)
(* The nullable columns prefix, qsl_status and band hold optional values.   *)

\* SQL `column = ?`: never true when either side is NULL
SqlEq(a, b) == a # None /\ b # None /\ a = b

add_qso(user, country, call_worked, date, status, band) ==
    LET r == resolve_prefix_and_country(call_worked, country,
                                        DXCC_PREFIX_RULES, DXCC_ENTITIES)
    IN  Append(qsos,
               [callsign    |-> user,
                country     |-> IF r[2] # "" THEN r[2]
                                ELSE IF country = None THEN "" ELSE country[1],
                prefix      |-> r[1],
                call_worked |-> call_worked,
                qso_date    |-> date,
                qsl_status  |-> status,
                band        |-> band])

\* rows the WHERE clause of qso_exists and update_qso_status selects
KeyMatches(row, user, call_worked, date, band) ==
    /\ row.callsign = user
    /\ row.call_worked = call_worked
    /\ row.qso_date = date
    /\ SqlEq(row.band, band)

\* qso_exists: the qsl_status of the first matching row, None when there is no
\* such row (or when that status is NULL)
qso_exists(user, call_worked, date, band) ==
    LET hits == {k \in 1..Len(qsos) :
                    KeyMatches(qsos[k], user, call_worked, date, band)}
    IN  IF hits = {} THEN None
        ELSE qsos[CHOOSE k \in hits : \A j \in hits : k <= j].qsl_status

\* rows the WHERE clause of delete_qso and update_qso selects
RowMatches(row, user, country, call_worked, date, status, band) ==
    /\ row.callsign = user
    /\ row.country = country
    /\ row.call_worked = call_worked
    /\ row.qso_date = date
    /\ SqlEq(row.qsl_status, status)
    /\ SqlEq(row.band, band)

\* get_qsos_for_user: (prefix, country, call_worked, qso_date, qsl_status,
\* band) of the rows WHERE callsign = ?
get_qsos_for_user(user) ==
    LET own == SelectSeq(qsos, LAMBDA row : row.callsign = user)
    IN  [k \in 1..Len(own) |->
            <<own[k].prefix, own[k].country, own[k].call_worked,
              own[k].qso_date, own[k].qsl_status, own[k].band>>]

\* a delete without the callsign condition
delete_qso_anyUser(user, country, call_worked, date, status, band) ==
    SelectSeq(qsos, LAMBDA row :
        ~(/\ row.country = country
          /\ row.call_worked = call_worked
          /\ row.qso_date = date
          /\ SqlEq(row.qsl_status, status)
          /\ SqlEq(row.band, band)))

delete_qso(user, country, call_worked, date, status, band) ==
    SelectSeq(qsos, LAMBDA row :
        ~RowMatches(row, user, country, call_worked, date, status, band))

\* old_row and new_row are (country, call_worked, qso_date, qsl_status, band)
update_qso(user, old_row, new_row) ==
    LET r == resolve_prefix_and_country(new_row.call, Some(new_row.country),
                                        DXCC_PREFIX_RULES, DXCC_ENTITIES)
        new_country == IF r[2] # "" THEN r[2] ELSE new_row.country
    IN  [k \in 1..Len(qsos) |->
            IF RowMatches(qsos[k], user, old_row.country, old_row.call,
                          old_row.date, old_row.status, old_row.band)
            THEN [qsos[k] EXCEPT !.country = new_country,
                                 !.prefix = r[1],
                                 !.call_worked = new_row.call,
                                 !.qso_date = new_row.date,
                                 !.qsl_status = new_row.status,
                                 !.band = new_row.band]
            ELSE qsos[k]]

update_qso_status(user, call_worked, date, band, new_status) ==
    [k \in 1..Len(qsos) |->
        IF KeyMatches(qsos[k], user, call_worked, date, band)
        THEN [qsos[k] EXCEPT !.qsl_status = new_status]
        ELSE qsos[k]]

---------------------------------------------------------------------------
(* ADIF files the importers are run on *)

Str_K1A == <<"K", "1", "A">>

Raw_20230615 == <<"2", "0", "2", "3", "0", "6", "1", "5">>

Text(tag, text) == Field(tag, Len(text), text)

\* BAND values as written in a file
RawBands ==
    << <<"2", "0", "M">>, <<"4", "0", "m">>, <<"2", "m">>,
       <<"7", "0", "c", "m">> >>

\* two records with the same CALL and QSO_DATE and the given BAND values
PairFile(b1, b2) ==
    << <<Text("CALL", Str_K1A), Text("QSO_DATE", Raw_20230615),
         Text("BAND", b1)>>,
       <<Text("CALL", Str_K1A), Text("QSO_DATE", Raw_20230615),
         Text("BAND", b2)>> >>

\* a record without CALL, a record without QSO_DATE and the same record twice
MixedFile ==
    << <<Text("CALL", <<" ", "k", "1", "a">>), Text("QSO_DATE", Raw_20230615),
         Text("BAND", <<"2", "0", "m">>), Text("LOTW_QSL_RCVD", <<"y">>),
         Field("COUNTRY", 5, "Japan")>>,
       <<Text("QSO_DATE", Raw_20230615), Text("BAND", <<"2", "0", "m">>)>>,
       <<Text("CALL", Str_K1A), Text("BAND", <<"2", "0", "m">>)>>,
       <<Text("CALL", Str_K1A), Text("QSO_DATE", Raw_20230615),
         Text("BAND", <<"2", "0", "m">>)>> >>

\* one record
SingleFile ==
    << <<Text("CALL", Str_K1A), Text("QSO_DATE", Raw_20230615),
         Text("BAND", <<"4", "0", "M">>), Text("QSL_RCVD", <<"y">>)>> >>

FixedFiles == <<SingleFile, MixedFile>>

\* every pair file over two different entries of RawBands
PairFiles ==
    LET n == Len(RawBands)
        pairs == [k \in 1..(n * n) |->
                     <<((k - 1) \div n) + 1, ((k - 1) % n) + 1>>]
        other == SelectSeq(pairs, LAMBDA p : p[1] # p[2])
    IN  [k \in 1..Len(other) |->
            PairFile(RawBands[other[k][1]], RawBands[other[k][2]])]

Files == FixedFiles \o PairFiles

FixedIds == 1..Len(FixedFiles)

PairIds == (Len(FixedFiles) + 1)..Len(Files)

\* what parse_adif_file returns for each file
Parsed == [f \in 1..Len(Files) |-> parse_adif_file(Files[f])]

Users == {"N4LR"}

\* largest number of rows the qsos table is let grow to
MaxRows == 3

---------------------------------------------------------------------------
(* User tracking profiles (app/database.py): the user_profile table, its    *)
(* rows in rowid order, callsign the primary key                            *)

\* ",".join(bands)
RECURSIVE Join(_)
Join(bands) ==
    IF bands = << >> THEN << >>
    ELSE IF Len(bands) = 1 THEN bands[1]
    ELSE bands[1] \o <<",">> \o Join(Tail(bands))

\* band_str.split(",")
RECURSIVE Split(_)
Split(band_str) ==
    LET commas == {i \in 1..Len(band_str) : band_str[i] = ","}
    IN  IF commas = {} THEN <<band_str>>
        ELSE LET c == CHOOSE i \in commas : \A j \in commas : i <= j
             IN  <<SubSeq(band_str, 1, c - 1)>>
                 \o Split(SubSeq(band_str, c + 1, Len(band_str)))

ProfileRows(callsign) ==
    {k \in 1..Len(user_profile) : user_profile[k].callsign = callsign}

\* the (track_all, bands, include_deleted) of the user, the defaults when the
\* user has no row
get_user_profile(callsign) ==
    LET hits == ProfileRows(callsign)
        row  == user_profile[CHOOSE k \in hits : \A j \in hits : k <= j]
    IN  IF hits = {} THEN <<TRUE, << >>, FALSE>>
        ELSE <<row.track_all # 0,
               IF row.bands # << >> THEN Split(row.bands) ELSE << >>,
               row.include_deleted # 0>>

ProfileRow(callsign, track_all, bands, include_deleted) ==
    [callsign        |-> callsign,
     track_all       |-> IF track_all THEN 1 ELSE 0,
     bands           |-> Join(bands),
     include_deleted |-> IF include_deleted THEN 1 ELSE 0]

\* an insert that adds a row for every call
set_user_profile_appends(callsign, track_all, bands, include_deleted) ==
    Append(user_profile,
           ProfileRow(callsign, track_all, bands, include_deleted))

\* INSERT ... ON CONFLICT(callsign) DO UPDATE: the user's row is rewritten in
\* place, or appended when the user has none
set_user_profile(callsign, track_all, bands, include_deleted) ==
    IF ProfileRows(callsign) = {}
    THEN Append(user_profile,
                ProfileRow(callsign, track_all, bands, include_deleted))
    ELSE [k \in 1..Len(user_profile) |->
             IF user_profile[k].callsign = callsign
             THEN ProfileRow(callsign, track_all, bands, include_deleted)
             ELSE user_profile[k]]

ProfileUsers == {"N4LR", "W1AW"}

\* the bands of the profile dialog's checkboxes that the users tick
ProfileBands == {Str_20m, Str_40m}

\* user_bands: ticked bands in the order they were ticked
BandLists ==
    UNION {{b \in [1..n -> ProfileBands] :
               \A i, j \in 1..n : i # j => b[i] # b[j]} :
           n \in 0..Cardinality(ProfileBands)}

\* largest number of set_user_profile calls followed
MaxSets == 3

NoGet == [asked |-> FALSE, user |-> "", value |-> << >>]

ProfileInit ==
    /\ user_profile = << >>
    /\ profile_obs = [last    |-> [u \in ProfileUsers |-> None],
                      sets    |-> 0,
                      rewrote |-> {},
                      latest  |-> "",
                      got     |-> NoGet]

\* save_profile / on_include_deleted_change of some user's session
SetProfile ==
    /\ profile_obs.sets < MaxSets
    /\ \E u \in ProfileUsers, track_all \in BOOLEAN, bands \in BandLists,
          include_deleted \in BOOLEAN :
          /\ user_profile' =
                 set_user_profile(u, track_all, bands, include_deleted)
          /\ LET args == <<track_all, bands, include_deleted>>
                 old  == profile_obs.last[u]
             IN  profile_obs' =
                     [last    |-> [profile_obs.last EXCEPT ![u] = Some(args)],
                      sets    |-> profile_obs.sets + 1,
                      rewrote |-> IF old # None /\ old # Some(args)
                                  THEN profile_obs.rewrote \cup {u}
                                  ELSE profile_obs.rewrote,
                      latest  |-> u,
                      got     |-> NoGet]
    /\ UNCHANGED <<dirVars, storeVars, coarse, strftime_pads, parse,
                   dxccVars, stats>>

\* load_user_profile of some user's session
GetProfile ==
    /\ \E u \in ProfileUsers :
          profile_obs' =
              [profile_obs EXCEPT !.got = [asked |-> TRUE, user |-> u,
                                           value |-> get_user_profile(u)]]
    /\ UNCHANGED <<dirVars, storeVars, coarse, strftime_pads, parse,
                   user_profile, dxccVars, stats>>

---------------------------------------------------------------------------
(* Reference dataset import (app/tools/import_dxcc_json.py).  JSON values   *)
(* are tagged; the tables of dxcc.db hold their rows in rowid order.  The   *)
(* connection's DELETE and INSERT statements run in one transaction, seen   *)
(* by no other connection until con.commit().                               *)

JValue(t, n, s, b) == [t |-> t, n |-> n, s |-> s, b |-> b]

\* a key the object does not have
JAbsent == JValue("absent", 0, << >>, FALSE)

JNull == JValue("null", 0, << >>, FALSE)

JStr(s) == JValue("str", 0, s, FALSE)

JInt(n) == JValue("int", n, << >>, FALSE)

JBool(b) == JValue("bool", 0, << >>, b)

\* an entry of the list: a JSON object with its four keys, or another value
JEntry(t, entityCode, name, deleted, prefix) ==
    [t |-> t, entityCode |-> entityCode, name |-> name,
     deleted |-> deleted, prefix |-> prefix]

JObj(entityCode, name, deleted, prefix) ==
    JEntry("obj", entityCode, name, deleted, prefix)

JOther == JEntry("str", JAbsent, JAbsent, JAbsent, JAbsent)

\* str(n) of a natural number
RECURSIVE IntStr(_)
IntStr(n) ==
    IF n < 10 THEN <<Digits[n + 1]>>
    ELSE IntStr(n \div 10) \o <<Digits[(n % 10) + 1]>>

\* str(ent.get("entityCode"))
PyStr(v) ==
    IF v.t = "int" THEN IntStr(v.n)
    ELSE IF v.t = "str" THEN v.s
    ELSE <<"N", "o", "n", "e">>

\* bool(v) / `if v`
JTruthy(v) ==
    IF v.t = "bool" THEN v.b
    ELSE IF v.t = "int" THEN v.n # 0
    ELSE IF v.t = "str" THEN v.s # << >>
    ELSE FALSE

\* [p.strip().upper() for p in prefix_str.split(",") if p.strip()]
PrefixTokens(prefix_str) ==
    LET parts == Split(prefix_str)
        kept  == SelectSeq(parts, LAMBDA p : StrStrip(p) # << >>)
    IN  [k \in 1..Len(kept) |-> StrUpper(StrStrip(kept[k]))]

NoTables == [entities |-> << >>, prefixes |-> << >>]

\* one pass of the loop body on ent within the transaction tx: the tables
\* after the statements that ran, and whether one of them raised
LoopBody(tx, ent) ==
    LET entity_id == PyStr(ent.entityCode)
        name      == IF ent.name.t = "absent"
                     THEN JStr(<<"U", "n", "k", "n", "o", "w", "n">>)
                     ELSE ent.name
        active    == IF JTruthy(ent.deleted) THEN 0 ELSE 1
        taken     == \E k \in 1..Len(tx.entities) :
                         tx.entities[k].entity_id = entity_id
        row       == [entity_id |-> entity_id,
                      name      |-> PyStr(name),
                      active    |-> active]
        prefixes  == PrefixTokens(ent.prefix.s)
    IN  IF ent.t # "obj" THEN [raised |-> FALSE, tables |-> tx]
        ELSE IF name.t \notin {"str", "int"} \/ taken
        THEN [raised |-> TRUE, tables |-> tx]
        ELSE IF ~JTruthy(ent.prefix)
        THEN [raised |-> FALSE,
              tables |-> [tx EXCEPT !.entities = Append(@, row)]]
        ELSE IF ent.prefix.t # "str"
        THEN [raised |-> TRUE,
              tables |-> [tx EXCEPT !.entities = Append(@, row)]]
        ELSE [raised |-> FALSE,
              tables |-> [entities |-> Append(tx.entities, row),
                          prefixes |-> tx.prefixes
                              \o [k \in 1..Len(prefixes) |->
                                     [prefix    |-> prefixes[k],
                                      entity_id |-> entity_id]]]]

\* entries of the 'dxcc' list
Ent_USA ==
    JObj(JInt(291), JStr(<<"U", "S", "A">>), JAbsent,
         JStr(<<"K", ",", " ", "w", ",", ",", "n", " ", ",", " ">>))

Ent_Hawaii ==
    JObj(JInt(110), JStr(<<"H", "a", "w", "a", "i", "i">>), JBool(TRUE),
         JStr(<<"k", "h", "6">>))

Ent_Text291 ==
    JObj(JStr(<<"2", "9", "1">>), JStr(<<"U", "S">>), JBool(FALSE), JAbsent)

Ent_Bare == JObj(JAbsent, JAbsent, JNull, JNull)

Ent_NullName == JObj(JInt(6), JNull, JAbsent, JStr(<<"K", "L">>))

Ent_NumPrefix == JObj(JInt(6), JStr(<<"A", "K">>), JAbsent, JInt(7))

Ent_Comment == JOther

Entries ==
    {Ent_USA, Ent_Hawaii, Ent_Text291, Ent_Bare, Ent_NullName, Ent_NumPrefix,
     Ent_Comment}

\* largest number of entries of a 'dxcc' list
MaxEntries == 2

\* dxcc.json: whether the file exists and holds JSON, the type of the root's
\* 'dxcc' member and, for a list, its entries
DxccJson(exists, valid, dxcc, list) ==
    [exists |-> exists, valid |-> valid, dxcc |-> dxcc, list |-> list]

DxccJsons ==
    {DxccJson(FALSE, FALSE, "absent", << >>),
     DxccJson(TRUE, FALSE, "absent", << >>),
     DxccJson(TRUE, TRUE, "absent", << >>),
     DxccJson(TRUE, TRUE, "str", << >>)}
    \cup {DxccJson(TRUE, TRUE, "list", l) :
             l \in UNION {[1..n -> Entries] : n \in 0..MaxEntries}}

\* the file passes the checks made before the database is opened
HasDxccList(json) == json.exists /\ json.valid /\ json.dxcc = "list"

\* largest number of import_dxcc runs followed
MaxImports == 2

DxccIdle ==
    [pc |-> "idle", json |-> << >>, i |-> 1, tx |-> NoTables,
     before |-> NoTables, outcome |-> "none", runs |-> 0]

DxccInit ==
    /\ dxcc_db = NoTables
    /\ dxcc_imp = DxccIdle

\* import_dxcc up to the loop: the checks of the file, then the two DELETEs,
\* which open the transaction
DxccStart ==
    /\ dxcc_imp.pc = "idle"
    /\ dxcc_imp.runs < MaxImports
    /\ \E json \in DxccJsons :
          dxcc_imp' =
              IF HasDxccList(json)
              THEN [pc |-> "loop", json |-> json.list, i |-> 1,
                    tx |-> NoTables, before |-> dxcc_db, outcome |-> "none",
                    runs |-> dxcc_imp.runs + 1]
              ELSE [DxccIdle EXCEPT !.outcome = "raised",
                                    !.runs = dxcc_imp.runs + 1]
    /\ UNCHANGED <<dirVars, storeVars, coarse, strftime_pads, parse,
                   profileVars, dxcc_db, stats>>

\* a loop body whose connection commits after every statement
DxccEntry_autocommit ==
    /\ dxcc_imp.pc = "loop"
    /\ dxcc_imp.i <= Len(dxcc_imp.json)
    /\ LET r == LoopBody(dxcc_imp.tx, dxcc_imp.json[dxcc_imp.i])
       IN  /\ dxcc_imp' =
                  IF r.raised
                  THEN [DxccIdle EXCEPT !.i = dxcc_imp.i,
                                        !.outcome = "raised",
                                        !.runs = dxcc_imp.runs]
                  ELSE [dxcc_imp EXCEPT !.i = @ + 1, !.tx = r.tables]
           /\ dxcc_db' = r.tables
    /\ UNCHANGED <<dirVars, storeVars, coarse, strftime_pads, parse,
                   profileVars, stats>>

\* one pass of the loop; an exception leaves import_dxcc without a commit and
\* the transaction is rolled back when the connection is dropped
DxccEntry ==
    /\ dxcc_imp.pc = "loop"
    /\ dxcc_imp.i <= Len(dxcc_imp.json)
    /\ LET r == LoopBody(dxcc_imp.tx, dxcc_imp.json[dxcc_imp.i])
       IN  dxcc_imp' =
               IF r.raised
               THEN [DxccIdle EXCEPT !.i = dxcc_imp.i,
                                     !.outcome = "raised",
                                     !.runs = dxcc_imp.runs]
               ELSE [dxcc_imp EXCEPT !.i = @ + 1, !.tx = r.tables]
    /\ UNCHANGED <<dirVars, storeVars, coarse, strftime_pads, parse,
                   profileVars, dxcc_db, stats>>

\* con.commit()
DxccCommit ==
    /\ dxcc_imp.pc = "loop"
    /\ dxcc_imp.i > Len(dxcc_imp.json)
    /\ dxcc_db' = dxcc_imp.tx
    /\ dxcc_imp' = [DxccIdle EXCEPT !.i = dxcc_imp.i, !.outcome = "done",
                                    !.runs = dxcc_imp.runs]
    /\ UNCHANGED <<dirVars, storeVars, coarse, strftime_pads, parse,
                   profileVars, stats>>

---------------------------------------------------------------------------
(* Files parse_adif_file is run on by itself: one record each, with the QSL *)
(* fields in every order or with one QSO_DATE value                         *)

RcvdTags == {"QSL_RCVD", "EQSL_QSL_RCVD", "LOTW_QSL_RCVD"}

RcvdValues == {<<"Y">>, <<"v">>, <<"N">>, <<"Y", "E", "S">>}

SentValues == {<<"y">>, <<"Q">>, <<"r">>, <<"N">>}

QslFields ==
    {Text(t, v) : t \in RcvdTags, v \in RcvdValues}
    \cup {Text("QSL_SENT", v) : v \in SentValues}

\* the QSL fields of a record: any of the four tags, once each, in any order
QslOrders ==
    UNION {{q \in [1..n -> QslFields] :
               \A i, j \in 1..n : i # j => q[i].tag # q[j].tag} :
           n \in 0..4}

QslFile(q) ==
    << <<Text("CALL", Str_K1A), Text("QSO_DATE", Raw_20230615)>> \o q >>

Years ==
    {<<"0", "0", "0", "0">>, <<"0", "0", "0", "1">>, <<"0", "9", "9", "9">>,
     <<"1", "9", "0", "0">>, <<"2", "0", "0", "0">>, <<"2", "0", "2", "3">>,
     <<"2", "0", "2", "4">>}

Months ==
    {<<"0", "0">>, <<"0", "1">>, <<"0", "2">>, <<"0", "4">>, <<"1", "2">>,
     <<"1", "3">>}

Days ==
    {<<"0", "0">>, <<"0", "1">>, <<"2", "8">>, <<"2", "9">>, <<"3", "0">>,
     <<"3", "1">>, <<"3", "2">>}

\* QSO_DATE values that are not eight digits
OddDates ==
    {<<"2", "0", "2", "3", "0", "6", "1">>,
     <<"2", "0", "2", "3", "0", "6", "1", "5", "0">>,
     <<"2", "0", "2", "3", "-", "0", "6", "-", "1", "5">>,
     <<"2", "0", "2", "3", "0", "6", "1", "A">>,
     <<"1", "5", "/", "0", "6", "/", "2", "3">>,
     << >>}

RawDates == {y \o m \o d : y \in Years, m \in Months, d \in Days} \cup OddDates

DateFile(d) ==
    << <<Text("CALL", Str_K1A), Text("QSO_DATE", d),
         Text("QSL_SENT", <<"y">>)>> >>

\* a record without a QSO_DATE field
NoDateFile == << <<Text("CALL", Str_K1A), Text("QSL_SENT", <<"y">>)>> >>

\* longest BAND text of which every spelling is tried
MaxBandLen == 3

BandAlphabet == {"0", "1", "2", "6", "m", "M", "c", " "}

\* every supported band as listed, with a capital M, and with a capital M
\* between blanks; band names that are not supported
LongBands ==
    {SUPPORTED_BANDS[k] : k \in 1..Len(SUPPORTED_BANDS)}
    \cup {StrUpper(SUPPORTED_BANDS[k]) : k \in 1..Len(SUPPORTED_BANDS)}
    \cup {<<" ">> \o StrUpper(SUPPORTED_BANDS[k]) \o <<" ", "\t">> :
              k \in 1..Len(SUPPORTED_BANDS)}
    \cup {<<"7", "0", "c", "m">>, <<"2", "0", "m", "m">>,
          <<"2", "0", " ", "m">>, <<"0", "2", "0", "m">>,
          <<"1", "6", "0", "c", "m">>, <<"2", "0", "m", "e", "t", "e", "r">>}

BandTexts == StringsUpTo(BandAlphabet, MaxBandLen) \cup LongBands

\* a record with a BAND field of the declared length
BandFile(len, text) ==
    << <<Text("CALL", Str_K1A), Text("QSO_DATE", Raw_20230615),
         Field("BAND", len, text)>> >>

\* the declared length is that of the text, or 3
BandFiles ==
    {BandFile(Len(t), t) : t \in BandTexts}
    \cup {BandFile(3, t) : t \in BandTexts}

ParseFiles ==
    {QslFile(q) : q \in QslOrders} \cup {DateFile(d) : d \in RawDates}
    \cup {NoDateFile} \cup BandFiles

\* the call of parse_adif_file
ParseFile ==
    /\ ~parse.done
    /\ parse.file # << >>
    /\ parse' = [parse EXCEPT !.done = TRUE,
                              !.out = parse_adif_file(parse.file)]
    /\ UNCHANGED <<dirVars, storeVars, coarse, strftime_pads, profileVars,
                   dxccVars, stats>>

\* no aggregation query made yet
NoStats ==
    [kind |-> "none", bands |-> << >>, include_deleted |-> FALSE,
     track_all |-> FALSE, worked |-> {}, confirmed |-> {}, requested |-> {},
     needed |-> {}, total |-> 0, needs |-> << >>]

\* a parse_adif_file call on a file, not yet run
ParseCall(file) == [file |-> file, done |-> FALSE, out |-> << >>]

\* what the specifications of the other parts start from: a single tier, no
\* parser call of its own; the files of the import pipeline carry years from
\* 1000 on, which every C library writes alike
AuxInit ==
    /\ coarse = NoCoarse
    /\ strftime_pads = TRUE
    /\ parse = ParseCall(<< >>)
    /\ ProfileInit
    /\ DxccInit
    /\ stats = NoStats

---------------------------------------------------------------------------
(* Import pipeline (adif_import.import_adif), one run at a time.  Each store *)
(* call opens its own connection and commits, so other writers may act      *)
(* between the cancel check, the qso_exists query and the add_qso insert.   *)

\* on_progress tells whether the caller supplied the callback; progress is the
\* list of the percentages the run has passed to it
ImpIdle ==
    [pc |-> "idle", file |-> 1, user |-> "N4LR", cancel_flag |-> None, i |-> 1,
     inserted |-> 0, skipped |-> 0, total |-> 0, on_progress |-> FALSE,
     progress |-> << >>]

\* uiKeys are the dedup keys the UI import has inserted a row for while the
\* pipeline run was going on
ObsInit ==
    [again |-> FALSE, dirty |-> FALSE, startLen |-> 0, cancelN |-> -1,
     uiKeys |-> {}]

UiIdle == [pc |-> "idle", file |-> 1, k |-> 1, imported |-> 0]

Key(user, call_worked, date, band) == <<user, call_worked, date, band>>

Records == Parsed[imp.file]

\* import_adif is called: the file is parsed and the counters are set.
\* cancel_flag is None or the caller's flag.  obs.again records that this run
\* repeats the previous one (same file and user, completed, not cancelled,
\* nothing else written to the store since that run began).
Started(f, u, flag) ==
    [pc |-> "top", file |-> f, user |-> u, cancel_flag |-> flag,
     i |-> 1, inserted |-> 0, skipped |-> 0, total |-> Len(Parsed[f]),
     on_progress |-> FALSE, progress |-> << >>]

ImportStart(f, u, flag) ==
    /\ imp.pc \in {"idle", "done"}
    /\ imp' = Started(f, u, flag)
    /\ obs' = [again    |-> /\ imp.pc = "done"
                            /\ imp.file = f /\ imp.user = u
                            /\ obs.cancelN = -1
                            /\ ~obs.dirty,
               dirty    |-> FALSE,
               startLen |-> Len(qsos),
               cancelN  |-> IF flag = Some(TRUE) THEN 0 ELSE -1,
               uiKeys   |-> {}]
    /\ UNCHANGED <<qsos, uiVars, dirVars, auxVars>>

\* import_adif is called with an on_progress callback
ImportStartProgress(f, u, flag) ==
    /\ imp.pc \in {"idle", "done"}
    /\ imp' = [Started(f, u, flag) EXCEPT !.on_progress = TRUE]
    /\ obs' = [again    |-> FALSE,
               dirty    |-> FALSE,
               startLen |-> Len(qsos),
               cancelN  |-> IF flag = Some(TRUE) THEN 0 ELSE -1,
               uiKeys   |-> {}]
    /\ UNCHANGED <<qsos, uiVars, dirVars, auxVars>>

\* the loop without the cancel check
ImportTop_ignoresCancel ==
    /\ imp.pc = "top"
    /\ IF imp.i > imp.total
       THEN imp' = [imp EXCEPT !.pc = "done"]
       ELSE IF Records[imp.i].date = << >>
       THEN imp' = [imp EXCEPT !.i = imp.i + 1]
       ELSE imp' = [imp EXCEPT !.pc = "exists"]
    /\ UNCHANGED <<qsos, obs, uiVars, dirVars, auxVars>>

\* the loop counting a candidate without date as skipped
ImportTop_countsDateless ==
    /\ imp.pc = "top"
    /\ IF imp.i > imp.total \/ imp.cancel_flag = Some(TRUE)
       THEN imp' = [imp EXCEPT !.pc = "done"]
       ELSE IF Records[imp.i].date = << >>
       THEN imp' = [imp EXCEPT !.i = imp.i + 1, !.skipped = imp.skipped + 1]
       ELSE imp' = [imp EXCEPT !.pc = "exists"]
    /\ UNCHANGED <<qsos, obs, uiVars, dirVars, auxVars>>

\* top of the loop: the loop ends after the last candidate, the cancel flag is
\* read, a candidate without date is passed over
ImportTop ==
    /\ imp.pc = "top"
    /\ IF imp.i > imp.total \/ imp.cancel_flag = Some(TRUE)
       THEN imp' = [imp EXCEPT !.pc = "done"]
       ELSE IF Records[imp.i].date = << >>
       THEN imp' = [imp EXCEPT !.i = imp.i + 1]
       ELSE imp' = [imp EXCEPT !.pc = "exists"]
    /\ UNCHANGED <<qsos, obs, uiVars, dirVars, auxVars>>

\* existing = qso_exists(...); a truthy status counts the candidate as skipped
ImportExists ==
    /\ imp.pc = "exists"
    /\ LET c == Records[imp.i]
           existing == qso_exists(imp.user, c.call, c.date, Some(c.band))
       IN  IF Truthy(existing)
           THEN imp' = [imp EXCEPT !.skipped = imp.skipped + 1,
                                   !.i = imp.i + 1, !.pc = "top"]
           ELSE imp' = [imp EXCEPT !.pc = "insert"]
    /\ UNCHANGED <<qsos, obs, uiVars, dirVars, auxVars>>

\* pairs (i, total) up to total = 100 for which the float product
\* (i / total) * 100 falls just below the exact quotient's integer part
FloatShort ==
    {<<29, 50>>, <<29, 100>>, <<57, 100>>, <<58, 100>>}

\* the percentage counting the candidates still to come
percent_remaining(i, total) == (100 * (total - i)) \div total

\* percent = int((i / total) * 100), for total up to 100
percent(i, total) ==
    LET q == (100 * i) \div total
    IN  IF <<i, total>> \in FloatShort THEN q - 1 ELSE q

\* add_qso(...); inserted += 1; the progress callback, when supplied, is
\* called with the percentage of the candidate's position
ImportInsert ==
    /\ imp.pc = "insert"
    /\ Len(qsos) < MaxRows
    /\ LET c == Records[imp.i]
       IN  qsos' = add_qso(imp.user, Some(c.country), c.call, c.date,
                           Some(c.status), Some(c.band))
    /\ imp' = [imp EXCEPT !.inserted = imp.inserted + 1, !.i = imp.i + 1,
                          !.pc = "top",
                          !.progress = IF imp.on_progress
                                       THEN Append(@, percent(imp.i, imp.total))
                                       ELSE @]
    /\ UNCHANGED <<obs, uiVars, dirVars, auxVars>>

\* the caller sets cancel_flag["value"] during the run.  obs.cancelN is the
\* number of candidates the loop has taken up by then.
Cancel ==
    /\ imp.pc \in {"top", "exists", "insert"}
    /\ imp.cancel_flag = Some(FALSE)
    /\ imp' = [imp EXCEPT !.cancel_flag = Some(TRUE)]
    /\ obs' = [obs EXCEPT !.cancelN = IF imp.pc = "top" THEN imp.i - 1
                                      ELSE imp.i]
    /\ UNCHANGED <<qsos, uiVars, dirVars, auxVars>>

\* statuses another caller of the store may write
NewStatuses == {None, Some(""), Some("Confirmed")}

\* update_qso_status on the key of a stored row
UpdateStatus(k, new_status) ==
    /\ qsos' = update_qso_status(qsos[k].callsign, qsos[k].call_worked,
                                 qsos[k].qso_date, qsos[k].band, new_status)
    /\ obs' = [obs EXCEPT !.dirty = TRUE]
    /\ UNCHANGED <<imp, uiVars, dirVars, auxVars>>

\* update_qso_status called for user u with the key of a stored row, which
\* may be a row of another user
UpdateStatusAs(u, k, new_status) ==
    /\ qsos' = update_qso_status(u, qsos[k].call_worked, qsos[k].qso_date,
                                 qsos[k].band, new_status)
    /\ obs' = [obs EXCEPT !.dirty = TRUE]
    /\ UNCHANGED <<imp, uiVars, dirVars, auxVars>>

\* cancel_flag as the caller passes it: none, or a flag that is clear or set
Flags == {None, Some(FALSE), Some(TRUE)}

ImportInit ==
    /\ AuxInit
    /\ DXCC_ENTITIES = BUILTIN_ENTITIES
    /\ DXCC_PREFIX_RULES = BUILTIN_PREFIX_RULES
    /\ loader = LoaderIdle
    /\ lookup = Query(<< >>, None)
    /\ qsos = << >>
    /\ imp = ImpIdle
    /\ all_rows = << >>
    /\ ui = UiIdle
    /\ obs = ObsInit

ImportNext ==
    \/ \E f \in FixedIds, u \in Users, flag \in Flags : ImportStart(f, u, flag)
    \/ ImportTop
    \/ ImportExists
    \/ ImportInsert
    \/ Cancel
    \/ \E k \in 1..Len(qsos), s \in NewStatuses : UpdateStatus(k, s)

---------------------------------------------------------------------------
(* UI handlers of main() for the logged-in user.  The handlers run one at a  *)
(* time; the upload API runs the import pipeline in its own thread.         *)

current_user == "N4LR"

\* a table row [country, call, date, status, band]
Rec(country, call, date, status, band) ==
    [country |-> country, call |-> call, date |-> date, status |-> status,
     band |-> band]

\* the country a handler derives from the callsign, other when unresolved
CountryOf(call, other) ==
    LET d == dxcc_from_call(call, DXCC_PREFIX_RULES, DXCC_ENTITIES)
    IN  IF Truthy(d[2]) THEN d[2][1] ELSE other

\* the sequence with the first element equal to r removed / replaced
FirstAt(rows, r) ==
    LET at == {k \in 1..Len(rows) : rows[k] = r}
    IN  IF at = {} THEN 0 ELSE CHOOSE k \in at : \A j \in at : k <= j

RemoveFirst(rows, r) ==
    LET a == FirstAt(rows, r)
    IN  IF a = 0 THEN rows
        ELSE SubSeq(rows, 1, a - 1) \o SubSeq(rows, a + 1, Len(rows))

ReplaceFirst(rows, r, n) ==
    LET a == FirstAt(rows, r)
    IN  IF a = 0 THEN rows ELSE [rows EXCEPT ![a] = n]

\* largest number of rows the UI handlers let the table and the store grow to
MaxTable == 2

Room == Len(qsos) < MaxTable /\ Len(all_rows) < MaxTable

\* add_entry: the Add Entry button with the values of the form
add_entry(call, date, status, band) ==
    /\ ui.pc = "idle"
    /\ Room
    /\ IF call = << >>
       THEN UNCHANGED <<qsos, all_rows, obs>>
       ELSE LET country == CountryOf(call, "Unknown")
            IN  /\ all_rows' = Append(all_rows,
                                      Rec(country, call, date, status, band))
                /\ qsos' = add_qso(current_user, Some(country), call, date,
                                   status, band)
                /\ obs' = [obs EXCEPT !.dirty = TRUE]
    /\ UNCHANGED <<imp, ui, dirVars, auxVars>>

\* delete_entry on a row of the table
delete_entry(k) ==
    /\ ui.pc = "idle"
    /\ LET r == all_rows[k]
       IN  /\ all_rows' = RemoveFirst(all_rows, r)
           /\ qsos' = delete_qso(current_user, r.country, r.call, r.date,
                                 r.status, r.band)
    /\ obs' = [obs EXCEPT !.dirty = TRUE]
    /\ UNCHANGED <<imp, ui, dirVars, auxVars>>

\* edit_entry on a row of the table, then Save with the values of the dialog
save_changes(k, call, date, status, band) ==
    /\ ui.pc = "idle"
    /\ LET old_row == all_rows[k]
           new_row == Rec(CountryOf(call, "Unknown"), call, date, status, band)
       IN  /\ all_rows' = ReplaceFirst(all_rows, old_row, new_row)
           /\ qsos' = update_qso(current_user, old_row, new_row)
    /\ obs' = [obs EXCEPT !.dirty = TRUE]
    /\ UNCHANGED <<imp, ui, dirVars, auxVars>>

\* clear_all_qsos: DELETE FROM qsos WHERE callsign = the user
clear_all_qsos ==
    /\ ui.pc = "idle"
    /\ qsos' = SelectSeq(qsos, LAMBDA row : row.callsign # current_user)
    /\ all_rows' = << >>
    /\ obs' = [obs EXCEPT !.dirty = TRUE]
    /\ UNCHANGED <<imp, ui, dirVars, auxVars>>

\* main.import_adif is called on a picked file: the file is parsed
UiImportStart(f) ==
    /\ ui.pc = "idle"
    /\ IF Len(Parsed[f]) = 0
       THEN UNCHANGED ui
       ELSE ui' = [pc |-> "loop", file |-> f, k |-> 1, imported |-> 0]
    /\ UNCHANGED <<qsos, imp, all_rows, obs, dirVars, auxVars>>

\* one turn of its loop: the row is appended to the table and stored
UiImportRow ==
    /\ ui.pc = "loop"
    /\ ui.k <= Len(Parsed[ui.file])
    /\ Room
    /\ LET c == Parsed[ui.file][ui.k]
           call == StrUpper(StrStrip(c.call))
           country == CountryOf(call, IF c.country = "" THEN "Unknown"
                                      ELSE c.country)
       IN  IF call = << >>
           THEN /\ ui' = [ui EXCEPT !.k = ui.k + 1]
                /\ UNCHANGED <<qsos, all_rows, obs>>
           ELSE /\ all_rows' = Append(all_rows,
                                      Rec(country, call, c.date, Some(c.status),
                                          Some(c.band)))
                /\ qsos' = add_qso(current_user, Some(country), call, c.date,
                                   Some(c.status), Some(c.band))
                /\ ui' = [ui EXCEPT !.k = ui.k + 1,
                                    !.imported = ui.imported + 1]
                /\ obs' = [obs EXCEPT
                             !.dirty = TRUE,
                             !.uiKeys =
                                 IF imp.pc \in {"top", "exists", "insert"}
                                 THEN @ \cup {Key(current_user, call, c.date,
                                                  Some(c.band))}
                                 ELSE @]
    /\ UNCHANGED <<imp, dirVars, auxVars>>

\* the loop is over: the view is refreshed and the count is shown
UiImportEnd ==
    /\ ui.pc = "loop"
    /\ ui.k > Len(Parsed[ui.file])
    /\ ui' = UiIdle
    /\ UNCHANGED <<qsos, imp, all_rows, obs, dirVars, auxVars>>

\* values of the entry form and the edit dialog
FormCalls == {<< >>, Str_K1A}

FormDates == {DateStr(Raw_20230615)}

FormStatuses == {Some("Needed")}

FormBands == {None, Some(Str_40m)}

---------------------------------------------------------------------------
(* Aggregation (database.get_dxcc_dashboard, database.get_dxcc_need_list,   *)
(* main.compute_stats).  Sets of entity ids and of (id, name, band) triples *)
(* stand for the sets and the list the code returns.                        *)

ConfirmedEquivalent == {Some("Confirmed"), Some("LoTW"), Some("QSL")}

\* database.py's own name DXCC_ENTITIES: `from app.dxcc_prefixes import
\* DXCC_ENTITIES` binds it, when database is imported, to the table of that
\* moment; load_extended_data later rebinds the name in dxcc_prefixes only
database_DXCC_ENTITIES == BUILTIN_ENTITIES

\* the keys of that table in the order DXCC_ENTITIES.items() yields them: the
\* order in which the dict literal lists them
BUILTIN_ENTITY_KEYS ==
    <<"USA", "ALASKA", "HAWAII", "PUERTO_RICO", "US_VIRGIN", "GUANTANAMO",
      "CANADA", "MEXICO", "BERMUDA", "GREENLAND", "ST_PIERRE_MIQUELON",
      "CAYMAN", "BAHAMAS", "BARBADOS", "TURKS_CAICOS", "ENGLAND", "SCOTLAND",
      "WALES", "N_IRELAND", "ISLE_OF_MAN", "GUERNSEY", "JERSEY", "FRANCE",
      "CORSICA", "MONACO", "SPAIN", "PORTUGAL", "ITALY", "SARDINIA", "SICILY",
      "GERMANY", "AUSTRIA", "SWITZERLAND", "BELGIUM", "NETHERLANDS",
      "LUXEMBOURG", "DENMARK", "NORWAY", "SWEDEN", "FINLAND", "POLAND",
      "CZECH", "SLOVAKIA", "HUNGARY", "ROMANIA", "BULGARIA", "UKRAINE",
      "RUSSIA_EU", "RUSSIA_AS", "JAPAN", "KOREA_S", "CHINA", "TAIWAN",
      "HONG_KONG", "MACAU", "PHILIPPINES", "THAILAND", "VIETNAM", "CAMBODIA",
      "LAOS", "MALAYSIA_W", "MALAYSIA_E", "SINGAPORE", "INDIA", "SRI_LANKA",
      "VK_MAIN", "VK0_HEARD", "VK0_MACQ", "VK9_NORFOLK", "VK9_LORD_HOWE",
      "VK9_CHRISTMAS", "VK9_COCOS", "ZL_MAIN", "ZL7_CHATHAM", "ZL8_KERMADEC",
      "ZL9_AUCKLAND", "FIJI", "AMERICAN_SAMOA", "SAMOA", "TONGA", "COOK_N",
      "COOK_S", "SOUTH_AFRICA", "NAMIBIA", "BOTSWANA", "ZIMBABWE", "ANGOLA",
      "KENYA", "TANZANIA", "ETHIOPIA", "MADAGASCAR", "ARGENTINA", "BRAZIL",
      "CHILE", "URUGUAY", "PARAGUAY", "PERU", "COLOMBIA", "ECUADOR",
      "GALAPAGOS", "HONDURAS", "GUATEMALA", "EL_SALVADOR", "NICARAGUA",
      "COSTA_RICA", "PANAMA", "CUBA", "DOMINICAN", "HAITI", "E_GERMANY",
      "W_GERMANY", "CZECHOSLOVAKIA", "YUGOSLAVIA", "USSR", "CANAL_ZONE",
      "RHODESIA", "SAAR">>

\* the rows of SELECT ... WHERE callsign = ? [AND band IN (...)]
BandRows(user, bands) ==
    {k \in 1..Len(qsos) :
        /\ qsos[k].callsign = user
        /\ bands # << >> =>
               \E i \in 1..Len(bands) : SqlEq(qsos[k].band, Some(bands[i]))}

\* entity_for_callsign on the row's call, against the directory as it is
RowEntity(k) ==
    entity_for_callsign(qsos[k].call_worked, DXCC_PREFIX_RULES, DXCC_ENTITIES)

\* the rows the loop does not skip, each with what entity_for_callsign
\* returned for it: resolved, and active unless deleted entities are included
CountedRows(user, bands, include_deleted) ==
    LET resolved == {<<k, RowEntity(k)>> : k \in BandRows(user, bands)}
    IN  {r \in resolved : Truthy(r[2][1]) /\ (include_deleted \/ r[2][3])}

\* a dashboard that collects the confirmed entities before the filters
\* sum(1 for e in table.values() if e.active)
ActiveCount(table) == Cardinality({id \in DOMAIN table : table[id].active})

get_dxcc_dashboard_unfiltered(user, bands, include_deleted) ==
    LET all  == CountedRows(user, bands, TRUE)
        rows == {r \in all : include_deleted \/ r[2][3]}
    IN  [worked    |-> {r[2][1][1] : r \in rows},
         confirmed |-> {r[2][1][1] :
                           r \in {q \in all : qsos[q[1]].qsl_status
                                                 \in ConfirmedEquivalent}},
         total_active |-> ActiveCount(DXCC_ENTITIES)]

\* total_active is counted in dxcc_prefixes.DXCC_ENTITIES as it is at the call
\* (the function reads the module attribute), whatever include_deleted is
get_dxcc_dashboard(user, bands, include_deleted) ==
    LET rows == CountedRows(user, bands, include_deleted)
    IN  [worked    |-> {r[2][1][1] : r \in rows},
         confirmed |-> {r[2][1][1] :
                           r \in {q \in rows : qsos[q[1]].qsl_status
                                                  \in ConfirmedEquivalent}},
         total_active |-> ActiveCount(DXCC_ENTITIES)]

\* the list the two loops build: for each entity of DXCC_ENTITIES.items() in
\* turn and each band of the argument in turn, the pair is appended when it is
\* worked and not confirmed
get_dxcc_need_list(user, bands, include_deleted) ==
    LET rows      == CountedRows(user, bands, include_deleted)
        worked    == {<<r[2][1][1], qsos[r[1]].band[1]>> : r \in rows}
        confirmed == {<<r[2][1][1], qsos[r[1]].band[1]>> :
                         r \in {q \in rows : qsos[q[1]].qsl_status
                                                \in ConfirmedEquivalent}}
        keys      == BUILTIN_ENTITY_KEYS
        ids       == {p[1] : p \in worked}
        \* the turns of the two loops that append: (key position, band position)
        turns     == {t \in {e \in 1..Len(keys) : keys[e] \in ids}
                                \X (1..Len(bands)) :
                         /\ include_deleted
                            \/ database_DXCC_ENTITIES[keys[t[1]]].active
                         /\ <<keys[t[1]], bands[t[2]]>> \notin confirmed
                         /\ <<keys[t[1]], bands[t[2]]>> \in worked}
        Before(a, b) == a[1] < b[1] \/ (a[1] = b[1] /\ a[2] < b[2])
        nth       == [n \in 1..Cardinality(turns) |->
                         CHOOSE t \in turns :
                            Cardinality({o \in turns : Before(o, t)}) = n - 1]
    IN  [n \in 1..Cardinality(turns) |->
            <<keys[nth[n][1]], database_DXCC_ENTITIES[keys[nth[n][1]]].name,
              bands[nth[n][2]]>>]

\* main.band_is_tracked on the band of a table row
band_is_tracked(band, track_all, bands) ==
    IF track_all THEN TRUE
    ELSE IF ~Truthy(band) THEN FALSE
    ELSE \E i \in 1..Len(bands) : bands[i] = band[1]

\* main.py's own name DXCC_ENTITIES, bound by `from app.dxcc_prefixes import
\* DXCC_ENTITIES` when main is imported; main() calls load_extended_data
\* afterwards, which rebinds the name in dxcc_prefixes only
main_DXCC_ENTITIES == BUILTIN_ENTITIES

\* a compute_stats that collects the requested entities before the filters
compute_stats_unfiltered(track_all, bands, include_deleted) ==
    LET tracked == {k \in 1..Len(all_rows) :
                       band_is_tracked(all_rows[k].band, track_all, bands)}
        dxcc    == {<<k, dxcc_from_call(all_rows[k].call, DXCC_PREFIX_RULES,
                                        DXCC_ENTITIES)>> : k \in tracked}
        rows    == {r \in dxcc :
                       /\ Truthy(r[2][1])
                       /\ include_deleted \/ r[2][3] = Some(TRUE)}
        worked    == {r[2][1][1] : r \in rows}
        requested == {r[2][1][1] :
                         r \in {q \in dxcc :
                                   /\ Truthy(q[2][1])
                                   /\ all_rows[q[1]].status = Some("Requested")}}
        confirmed == {r[2][1][1] :
                         r \in {q \in rows :
                                   all_rows[q[1]].status = Some("Confirmed")}}
    IN  [worked     |-> worked,
         requested  |-> requested,
         confirmed  |-> confirmed,
         needed     |-> (worked \ requested) \ confirmed,
         total_dxcc |-> IF include_deleted
                        THEN Cardinality(DOMAIN main_DXCC_ENTITIES)
                        ELSE ActiveCount(main_DXCC_ENTITIES)]

compute_stats(track_all, bands, include_deleted) ==
    LET tracked == {k \in 1..Len(all_rows) :
                       band_is_tracked(all_rows[k].band, track_all, bands)}
        dxcc    == {<<k, dxcc_from_call(all_rows[k].call, DXCC_PREFIX_RULES,
                                        DXCC_ENTITIES)>> : k \in tracked}
        rows    == {r \in dxcc :
                       /\ Truthy(r[2][1])
                       /\ include_deleted \/ r[2][3] = Some(TRUE)}
        worked    == {r[2][1][1] : r \in rows}
        requested == {r[2][1][1] :
                         r \in {q \in rows :
                                   all_rows[q[1]].status = Some("Requested")}}
        confirmed == {r[2][1][1] :
                         r \in {q \in rows :
                                   all_rows[q[1]].status = Some("Confirmed")}}
    IN  [worked     |-> worked,
         requested  |-> requested,
         confirmed  |-> confirmed,
         needed     |-> (worked \ requested) \ confirmed,
         total_dxcc |-> IF include_deleted
                        THEN Cardinality(DOMAIN main_DXCC_ENTITIES)
                        ELSE ActiveCount(main_DXCC_ENTITIES)]

\* data/dxcc_entities.json and data/dxcc_prefixes.json of an installation
\* that extends the built-in directory
ExtendedEntities ==
    JsonList(<< [id |-> "JAPAN", name |-> "Japan", active |-> TRUE],
                [id |-> "KOSOVO", name |-> "Kosovo", active |-> TRUE],
                [id |-> "SERBIA_MONTENEGRO", name |-> "Serbia and Montenegro",
                 active |-> FALSE] >>)

ExtendedPrefixes ==
    JsonList(<< [prefix |-> <<"J", "A">>, entity_id |-> "JAPAN"],
                [prefix |-> <<"Z", "6">>, entity_id |-> "KOSOVO"],
                [prefix |-> <<"Y", "U">>, entity_id |-> "SERBIA_MONTENEGRO"] >>)

\* the directory as imported, and as load_extended_data leaves it with the
\* two files above in base_dir
Directories ==
    {<<BUILTIN_ENTITIES, BUILTIN_PREFIX_RULES>>,
     <<NewEntities(ExtendedEntities.data), NewRules(ExtendedPrefixes.data)>>}

\* the contacts of the log: calls of Japan, Kosovo and Yugoslavia, the
\* statuses a row of the store may hold, two bands
StatCalls == <<<<"J", "A", "1">>, <<"Z", "6", "1">>, <<"Y", "U", "1">>>>

StatStatuses == <<Some("Requested"), Some("Confirmed"), Some("LoTW")>>

StatBands == <<Some(Str_20m), Some(Str_40m)>>

\* the band lists of the queries: all bands, one band, two
TrackedBands == {<< >>, <<Str_20m>>, <<Str_20m, Str_40m>>}

\* the bands argument of the need list: those, and the two bands the other
\* way round
NeedBands == TrackedBands \cup {<<Str_40m, Str_20m>>}

\* the profile compute_stats reads: all bands tracked, or a list of bands
StatProfiles ==
    {<<TRUE, << >>>>} \cup {<<FALSE, bands>> : bands \in TrackedBands}

\* the place of a contact in the order the log is filled in
ContactRank(call, status, band) ==
    LET At(list, v) == CHOOSE k \in 1..Len(list) : list[k] = v
    IN  (At(StatCalls, call) * Len(StatStatuses) + At(StatStatuses, status))
            * Len(StatBands) + At(StatBands, band)

\* the Add Entry handler, for a contact of the log.  The aggregations collect
\* sets from the rows, so the log is filled in one order of the contacts.  The
\* queries below read the store and change nothing, so one query is followed
\* per behaviour, on the log as filled until then.
AddContact ==
    /\ stats = NoStats
    /\ \E c \in 1..Len(StatCalls), date \in FormDates,
          s \in 1..Len(StatStatuses), b \in 1..Len(StatBands) :
           /\ qsos # << >> =>
                  LET last == qsos[Len(qsos)]
                  IN  ContactRank(last.call_worked, last.qsl_status, last.band)
                          <= ContactRank(StatCalls[c], StatStatuses[s],
                                         StatBands[b])
           /\ add_entry(StatCalls[c], date, StatStatuses[s], StatBands[b])

Dashboard ==
    /\ stats = NoStats
    /\ \E bands \in TrackedBands, include_deleted \in BOOLEAN :
          LET d == get_dxcc_dashboard(current_user, bands, include_deleted)
          IN  stats' = [NoStats EXCEPT !.kind = "dashboard",
                                       !.bands = bands,
                                       !.include_deleted = include_deleted,
                                       !.worked = d.worked,
                                       !.confirmed = d.confirmed,
                                       !.total = d.total_active]
    /\ UNCHANGED <<dirVars, storeVars, coarse, strftime_pads, parse,
                   profileVars, dxccVars>>

NeedList ==
    /\ stats = NoStats
    /\ \E bands \in NeedBands, include_deleted \in BOOLEAN :
          stats' = [NoStats EXCEPT !.kind = "needs",
                                   !.bands = bands,
                                   !.include_deleted = include_deleted,
                                   !.needs = get_dxcc_need_list(
                                       current_user, bands, include_deleted)]
    /\ UNCHANGED <<dirVars, storeVars, coarse, strftime_pads, parse,
                   profileVars, dxccVars>>

ComputeStats ==
    /\ stats = NoStats
    /\ \E profile \in StatProfiles, include_deleted \in BOOLEAN :
          LET d == compute_stats(profile[1], profile[2], include_deleted)
          IN  stats' = [NoStats EXCEPT !.kind = "stats",
                                       !.bands = profile[2],
                                       !.include_deleted = include_deleted,
                                       !.track_all = profile[1],
                                       !.worked = d.worked,
                                       !.confirmed = d.confirmed,
                                       !.requested = d.requested,
                                       !.needed = d.needed,
                                       !.total = d.total_dxcc]
    /\ UNCHANGED <<dirVars, storeVars, coarse, strftime_pads, parse,
                   profileVars, dxccVars>>

---------------------------------------------------------------------------
(* Specifications *)

DirInit ==
    /\ DXCC_ENTITIES = BUILTIN_ENTITIES
    /\ DXCC_PREFIX_RULES = BUILTIN_PREFIX_RULES
    /\ loader = LoaderIdle
    /\ \E c \in Calls, fb \in Fallbacks : lookup = Query(c, fb)
    /\ qsos = << >>
    /\ imp = ImpIdle
    /\ all_rows = << >>
    /\ ui = UiIdle
    /\ obs = ObsInit
    /\ AuxInit

DirNext ==
    \/ \E ej \in 1..Len(EntityJsons), pj \in 1..Len(PrefixJsons) :
           LoadEntities(ej, pj)
    \/ LoadPrefixes
    \/ Lookup

\* the directory and the resolver: loads and queries
SpecResolver == DirInit /\ [][DirNext]_vars

\* the resolver over both tiers: one query against the built-in detailed
\* rules and a coarse tier
TiersInit ==
    /\ DXCC_ENTITIES = BUILTIN_ENTITIES
    /\ DXCC_PREFIX_RULES = BUILTIN_PREFIX_RULES
    /\ loader = LoaderIdle
    /\ \E c \in Calls, fb \in Fallbacks : lookup = Query(c, fb)
    /\ qsos = << >>
    /\ imp = ImpIdle
    /\ all_rows = << >>
    /\ ui = UiIdle
    /\ obs = ObsInit
    /\ coarse \in CoarseTiers
    /\ strftime_pads = TRUE
    /\ parse = ParseCall(<< >>)
    /\ ProfileInit
    /\ DxccInit
    /\ stats = NoStats

SpecTiers == TiersInit /\ [][Lookup]_vars

\* the parser alone: one call on one file, under either C library
ParseInit ==
    /\ DXCC_ENTITIES = BUILTIN_ENTITIES
    /\ DXCC_PREFIX_RULES = BUILTIN_PREFIX_RULES
    /\ loader = LoaderIdle
    /\ lookup = Query(<< >>, None)
    /\ qsos = << >>
    /\ imp = ImpIdle
    /\ all_rows = << >>
    /\ ui = UiIdle
    /\ obs = ObsInit
    /\ coarse = NoCoarse
    /\ strftime_pads \in BOOLEAN
    /\ \E f \in ParseFiles : parse = ParseCall(f)
    /\ ProfileInit
    /\ DxccInit
    /\ stats = NoStats

SpecParse == ParseInit /\ [][ParseFile]_vars

\* the aggregation queries over the log of one user, the directory as imported
\* or extended by a load
StatsInit ==
    /\ \E d \in Directories :
          /\ DXCC_ENTITIES = d[1]
          /\ DXCC_PREFIX_RULES = d[2]
    /\ loader = LoaderIdle
    /\ lookup = Query(<< >>, None)
    /\ qsos = << >>
    /\ imp = ImpIdle
    /\ all_rows = << >>
    /\ ui = UiIdle
    /\ obs = ObsInit
    /\ AuxInit

StatsNext == AddContact \/ Dashboard \/ NeedList \/ ComputeStats

SpecStats == StatsInit /\ [][StatsNext]_vars

\* runs of import_dxcc, one after the other
DxccImportInit ==
    /\ DXCC_ENTITIES = BUILTIN_ENTITIES
    /\ DXCC_PREFIX_RULES = BUILTIN_PREFIX_RULES
    /\ loader = LoaderIdle
    /\ lookup = Query(<< >>, None)
    /\ qsos = << >>
    /\ imp = ImpIdle
    /\ all_rows = << >>
    /\ ui = UiIdle
    /\ obs = ObsInit
    /\ AuxInit

DxccImportNext == DxccStart \/ DxccEntry \/ DxccCommit

SpecDxccImport == DxccImportInit /\ [][DxccImportNext]_vars

\* the profile table under the sessions of two users
ProfilesInit ==
    /\ DXCC_ENTITIES = BUILTIN_ENTITIES
    /\ DXCC_PREFIX_RULES = BUILTIN_PREFIX_RULES
    /\ loader = LoaderIdle
    /\ lookup = Query(<< >>, None)
    /\ qsos = << >>
    /\ imp = ImpIdle
    /\ all_rows = << >>
    /\ ui = UiIdle
    /\ obs = ObsInit
    /\ AuxInit

ProfilesNext == SetProfile \/ GetProfile

SpecProfiles == ProfilesInit /\ [][ProfilesNext]_vars

\* one run of the pipeline on a pair file, the store empty at its start
PairsInit ==
    /\ AuxInit
    /\ DXCC_ENTITIES = BUILTIN_ENTITIES
    /\ DXCC_PREFIX_RULES = BUILTIN_PREFIX_RULES
    /\ loader = LoaderIdle
    /\ lookup = Query(<< >>, None)
    /\ qsos = << >>
    /\ all_rows = << >>
    /\ ui = UiIdle
    /\ \E f \in PairIds, u \in Users, flag \in Flags :
          /\ imp = Started(f, u, flag)
          /\ obs = [ObsInit EXCEPT
                       !.cancelN = IF flag = Some(TRUE) THEN 0 ELSE -1]

PairsNext == ImportTop \/ ImportExists \/ ImportInsert \/ Cancel

SpecPairs == PairsInit /\ [][PairsNext]_vars

\* files sent to the upload API
UploadIds == {1}

\* the program: the UI handlers of the logged-in user and the upload API
\* running the pipeline for that user, on the built-in directory
MainNext ==
    \/ \E f \in UploadIds : ImportStart(f, current_user, None)
    \/ ImportTop
    \/ ImportExists
    \/ ImportInsert
    \/ \E call \in FormCalls, date \in FormDates, status \in FormStatuses,
          band \in FormBands : add_entry(call, date, status, band)
    \/ \E k \in 1..Len(all_rows) : delete_entry(k)
    \/ \E k \in 1..Len(all_rows), call \in FormCalls \ {<< >>},
          date \in FormDates, status \in FormStatuses, band \in FormBands :
          save_changes(k, call, date, status, band)
    \/ clear_all_qsos
    \/ \E f \in FixedIds : UiImportStart(f)
    \/ UiImportRow
    \/ UiImportEnd

Spec == ImportInit /\ [][MainNext]_vars

\* the import pipeline run again and again on the files, with the built-in
\* directory, a canceller and another writer of statuses
SpecImport == ImportInit /\ [][ImportNext]_vars

---------------------------------------------------------------------------
(* Properties of the resolver *)

\* rules of the current list that are a prefix of the normalized callsign
Matching(call) ==
    {i \in 1..Len(DXCC_PREFIX_RULES) :
        StartsWith(normalize_call(call), DXCC_PREFIX_RULES[i].prefix)}

EmptyCall(call) == \A i \in 1..Len(call) : call[i] \in Whitespace

\* the first matching rule names an entity that the entity table does not hold
Dangling(call) ==
    /\ ~EmptyCall(call)
    /\ Matching(call) # {}
    /\ \E i \in Matching(call) :
          /\ \A j \in Matching(call) : i <= j
          /\ DXCC_PREFIX_RULES[i].entity_id \notin DOMAIN DXCC_ENTITIES

UnresolvedValue ==
    <<None, IF lookup.fallback = None THEN "Unknown" ELSE lookup.fallback[1],
      FALSE>>

\* C1: the entity id returned for a callsign is that of a matching rule whose
\* prefix is at least as long as the prefix of every other matching rule, for
\* the built-in rules and for rules installed by load_extended_data.
C1_LongestPrefixWins ==
    (lookup.asked /\ ~EmptyCall(lookup.call) /\ Matching(lookup.call) # {}) =>
        \E j \in Matching(lookup.call) :
            /\ lookup.eid = Some(DXCC_PREFIX_RULES[j].entity_id)
            /\ \A i \in Matching(lookup.call) :
                  Len(DXCC_PREFIX_RULES[i].prefix)
                      <= Len(DXCC_PREFIX_RULES[j].prefix)

---------------------------------------------------------------------------
(* Properties of load_extended_data *)

\* C12: when load_extended_data has ended with an exception, DXCC_ENTITIES and
\* DXCC_PREFIX_RULES are what they were before the call.
C12_FailedLoadKeepsTables ==
    loader.raised => <<DXCC_ENTITIES, DXCC_PREFIX_RULES>> = loader.old

\* the entities part has installed a new table and the prefixes part, not yet
\* run, is going to replace the rule list
Mixed ==
    /\ loader.pc = "prefixes"
    /\ DXCC_ENTITIES # loader.old[1]
    /\ InstallsRules(PrefixJsons[loader.pj])

\* C20: a resolver call made while load_extended_data runs never reads the new
\* entity table together with the previous rule list (the call reads both
\* tables when a rule matches its callsign).
C20_NoMixedDirectory ==
    [][(~lookup.asked /\ lookup'.asked /\ Matching(lookup.call) # {})
          => ~Mixed]_vars

\* C19: DXCC_PREFIX_RULES is ordered by non-increasing prefix length, before
\* any load and after every load.
C19_RulesSorted ==
    \A i \in 1..(Len(DXCC_PREFIX_RULES) - 1) :
        Len(DXCC_PREFIX_RULES[i].prefix) >= Len(DXCC_PREFIX_RULES[i + 1].prefix)

---------------------------------------------------------------------------
(* Properties of the two tiers *)

\* rules of the coarse tier that are a prefix of the normalized callsign
CoarseMatching(call) ==
    {i \in 1..Len(coarse.rules) :
        StartsWith(normalize_call(call), coarse.rules[i].prefix)}

\* what a tier answers by itself: the entity of its first matching rule, and
\* the unresolved value when its entity table lacks that entity
TierAnswer(hits, rules, entities) ==
    LET first == CHOOSE i \in hits : \A j \in hits : i <= j
        eid   == rules[first].entity_id
    IN  IF eid \in DOMAIN entities
        THEN <<Some(entities[eid].id), entities[eid].name, entities[eid].active>>
        ELSE <<None, "Unknown", FALSE>>

---------------------------------------------------------------------------
(* Properties of the parser *)

\* the uppercased values of the received-QSL fields of a record
RcvdOf(rec) == {StrUpper(FieldGet(rec, t, << >>)) : t \in RcvdTags}

SentOf(rec) == StrUpper(FieldGet(rec, "QSL_SENT", << >>))

\* C13: every record of the file is emitted with status Confirmed when one of
\* QSL_RCVD, EQSL_QSL_RCVD, LOTW_QSL_RCVD is Y or V in either case, else
\* Requested when QSL_SENT is Y, Q or R, else Needed, whatever the order of
\* the fields in the record.
C13_QslPrecedence ==
    parse.done =>
        /\ Len(parse.out) = Len(parse.file)
        /\ \A k \in 1..Len(parse.out) :
              parse.out[k].status =
                  IF RcvdOf(parse.file[k]) \cap {<<"Y">>, <<"V">>} # {}
                  THEN "Confirmed"
                  ELSE IF SentOf(parse.file[k])
                              \in {<<"Y">>, <<"Q">>, <<"R">>}
                  THEN "Requested"
                  ELSE "Needed"

\* a parsed record with QSL_SENT Y written before LOTW_QSL_RCVD Y, Confirmed
C13_Witness ==
    /\ parse.done
    /\ Len(parse.out) = 1
    /\ parse.out[1].status = "Confirmed"
    /\ \E i, j \in 1..Len(parse.file[1]) :
          /\ i < j
          /\ parse.file[1][i].tag = "QSL_SENT"
          /\ StrUpper(FieldValue(parse.file[1][i])) = <<"Y">>
          /\ parse.file[1][j].tag = "LOTW_QSL_RCVD"
          /\ StrUpper(FieldValue(parse.file[1][j])) = <<"Y">>
    /\ RcvdOf(parse.file[1]) = {<<"Y">>, << >>}

\* the value is eight digits naming a day of the calendar
IsYmd(raw) == Len(raw) = 8 /\ IsDigits(raw) /\ ValidYmd(raw)

\* C14: every record is emitted; its date is YYYY-MM-DD when QSO_DATE is eight
\* digits naming a valid calendar date, and the QSO_DATE value unchanged
\* otherwise.
C14_DateCanonical ==
    parse.done =>
        /\ Len(parse.out) = Len(parse.file)
        /\ \A k \in 1..Len(parse.out) :
              LET raw == FieldGet(parse.file[k], "QSO_DATE", << >>)
              IN  parse.out[k].date =
                      IF IsYmd(raw)
                      THEN SubSeq(raw, 1, 4) \o <<"-">> \o SubSeq(raw, 5, 6)
                           \o <<"-">> \o SubSeq(raw, 7, 8)
                      ELSE raw

\* the supported band names
SupportedBands == {SUPPORTED_BANDS[k] : k \in 1..Len(SUPPORTED_BANDS)}

\* the BAND value of the parsed one-record file
BandValue == FieldGet(parse.file[1], "BAND", << >>)

\* C23: for every BAND value the band parse_adif_file gives out is the empty
\* string or a supported band; it is the supported band b exactly when the
\* value, trimmed and lowercased, equals b, and the empty string otherwise.
C23_BandNormalized ==
    (parse.done /\ parse.file \in BandFiles)
        => LET trimmed == StrLower(StrStrip(BandValue))
               band == parse.out[1].band
           IN  /\ band = << >> \/ band \in SupportedBands
               /\ \A b \in SupportedBands : band = b <=> trimmed = b
               /\ trimmed \notin SupportedBands => band = << >>

\* a BAND text written with a capital M between blanks came out as 160m
C23_Witness ==
    /\ parse.done
    /\ parse.file \in BandFiles
    /\ BandValue = <<"1", "6", "0", "M">>
    /\ parse.file[1][3].text # BandValue
    /\ parse.out[1].band = Str_160m

---------------------------------------------------------------------------
(* Properties of the user profiles *)

\* C18: the table holds at most one row per user, and get_user_profile(u)
\* returns (True, [], False) when no profile was set for u and otherwise the
\* values of the latest set_user_profile call for u, whatever was set for
\* other users.
C18_LastWriteWins ==
    /\ \A u \in ProfileUsers : Cardinality(ProfileRows(u)) <= 1
    /\ profile_obs.got.asked =>
          profile_obs.got.value =
              IF profile_obs.last[profile_obs.got.user] = None
              THEN <<TRUE, << >>, FALSE>>
              ELSE profile_obs.last[profile_obs.got.user][1]

\* a get for a user whose profile was set and then set to other values, two
\* bands among them, after the other user's profile was set last
C18_Witness ==
    /\ profile_obs.got.asked
    /\ profile_obs.got.user \in profile_obs.rewrote
    /\ profile_obs.latest \in ProfileUsers \ {profile_obs.got.user}
    /\ profile_obs.last[profile_obs.latest]
           # profile_obs.last[profile_obs.got.user]
    /\ Len(profile_obs.got.value[2]) = 2
    /\ profile_obs.got.value = profile_obs.last[profile_obs.got.user][1]

---------------------------------------------------------------------------
(* Properties of the reference dataset import *)

\* a step in which import_dxcc raises leaves the committed tables as the run
\* found them
DxccAtomic ==
    /\ (dxcc_imp.pc = "idle" /\ dxcc_imp'.outcome = "raised") =>
          dxcc_db' = dxcc_db
    /\ (dxcc_imp.pc = "loop" /\ dxcc_imp'.outcome = "raised") =>
          dxcc_db' = dxcc_imp.before

IsObj(ent) == ent.t = "obj"

\* the tokens of the entry's prefix string together with the entry's id
TokensOf(ent) ==
    IF ent.prefix.t = "str"
    THEN LET p == PrefixTokens(ent.prefix.s)
         IN  [k \in 1..Len(p) |->
                 [prefix |-> p[k], entity_id |-> PyStr(ent.entityCode)]]
    ELSE << >>

RECURSIVE AllTokens(_)
AllTokens(list) ==
    IF list = << >> THEN << >>
    ELSE TokensOf(Head(list)) \o AllTokens(Tail(list))

\* the entity rows of db are the entries of list, one each and in order, and
\* the prefix rows their uppercased non-blank tokens
RowsFor(db, list) ==
    /\ Len(db.entities) = Len(list)
    /\ \A k \in 1..Len(list) :
          /\ IsObj(list[k])
          /\ db.entities[k].entity_id = PyStr(list[k].entityCode)
          /\ db.entities[k].active =
                 (IF JTruthy(list[k].deleted) THEN 0 ELSE 1)
    /\ db.prefixes = AllTokens(list)
    /\ \A k \in 1..Len(db.prefixes) :
          /\ db.prefixes[k].prefix # << >>
          /\ StrUpper(StrStrip(db.prefixes[k].prefix)) = db.prefixes[k].prefix

\* the claim as stated: a run that raises leaves the committed tables as they
\* were, and a run that succeeds leaves one entity row per entry of the list
C17_OneRowPerListEntry ==
    [][/\ DxccAtomic
       /\ (dxcc_imp.pc = "loop" /\ dxcc_imp'.outcome = "done") =>
             RowsFor(dxcc_db', dxcc_imp.json)]_vars

\* C17: a run of import_dxcc that raises leaves the committed dxcc_entities
\* and dxcc_prefixes as they were; a run that succeeds leaves exactly one
\* entity row per list entry that is a JSON object, entries of other types
\* being skipped, and one prefix row per non-blank comma-separated prefix
\* token, stripped and uppercased.
C17_AtomicImport ==
    [][/\ DxccAtomic
       /\ (dxcc_imp.pc = "loop" /\ dxcc_imp'.outcome = "done") =>
             RowsFor(dxcc_db', SelectSeq(dxcc_imp.json, IsObj))]_vars

\* a run that raised on its second entry over tables an earlier run filled, and
\* before it a run that committed an entity with three prefix rows
C17_Witness ==
    /\ dxcc_imp.pc = "idle"
    /\ dxcc_imp.outcome = "raised"
    /\ dxcc_imp.i = 2
    /\ Len(dxcc_db.entities) = 1
    /\ Len(dxcc_db.prefixes) = 3

---------------------------------------------------------------------------
(* Properties of the aggregation *)

\* the user's contacts on a tracked band: (entity id, name, active, band,
\* confirmed), for the rows whose call resolves
Contacts(bands) ==
    LET on == {k \in 1..Len(qsos) :
                  /\ qsos[k].callsign = current_user
                  /\ qsos[k].band # None
                  /\ \E i \in 1..Len(bands) : bands[i] = qsos[k].band[1]}
        resolved == {<<RowEntity(k), qsos[k].band[1],
                       qsos[k].qsl_status \in ConfirmedEquivalent>> : k \in on}
    IN  {<<c[1][1][1], c[1][2], c[1][3], c[2], c[3]>> :
            c \in {r \in resolved : r[1][1] # None}}

\* the (id, name, band) triples of the entities worked on a tracked band and not
\* confirmed on it, entities left out by include_deleted apart
Needs(bands, include_deleted) ==
    LET contacts == Contacts(bands)
    IN  {<<c[1], c[2], c[4]>> :
            c \in {w \in contacts :
                      /\ include_deleted \/ w[3]
                      /\ \A o \in contacts :
                            o[1] = w[1] /\ o[4] = w[4] => ~o[5]}}

\* C15: get_dxcc_need_list returns exactly the (entity, name, band) triples
\* with the band among the tracked bands, some QSO of the user resolving to
\* the entity on that band and none of them confirmed on that band.
C15_NeedListExact ==
    [][stats'.kind = "needs" /\ stats' # stats =>
          {stats'.needs[n] : n \in 1..Len(stats'.needs)}
              = Needs(stats'.bands, stats'.include_deleted)]_vars

\* C16: the confirmed entities of get_dxcc_dashboard and of compute_stats are
\* among their worked entities, whatever the log, the bands and the
\* include_deleted setting.
C16_ConfirmedWithinWorked ==
    stats.kind \in {"dashboard", "stats"} =>
        stats.confirmed \subseteq stats.worked

\* a dashboard over a log with two entities worked, one of them confirmed
C16_Witness ==
    /\ stats.kind = "dashboard"
    /\ stats.confirmed # {}
    /\ stats.confirmed # stats.worked
    /\ \E k \in 1..Len(qsos) : qsos[k].qsl_status = Some("Confirmed")

---------------------------------------------------------------------------
(* Properties of the import pipeline *)

\* the candidate the loop is at
Cand == Records[imp.i]

\* stored rows with the dedup key of the candidate the loop is at
CandRows ==
    {k \in 1..Len(qsos) :
        KeyMatches(qsos[k], imp.user, Cand.call, Cand.date, Some(Cand.band))}

\* candidates among the first n that have a date
Dated(n) == {k \in 1..n : Records[k].date # << >>}

\* raw records of the file that carry a non-empty CALL
WithCall(file) == {k \in 1..Len(file) : RecordCall(file[k]) # << >>}

Uncancelled == imp.cancel_flag # Some(TRUE)

\* the run repeats the previous completed run, and nothing but the two runs
\* has written to the store since the previous one began
SecondRun == obs.again /\ ~obs.dirty

\* C3: a candidate whose key matches a stored row is counted in skipped, and
\* the loop goes on to the next candidate without inserting or changing a
\* row, whatever the status of the stored row.
C3_ExistingRowSkipped ==
    [][(imp.pc = "exists" /\ imp'.pc # "exists" /\ CandRows # {})
          => /\ imp'.pc = "top"
             /\ imp'.skipped = imp.skipped + 1
             /\ imp'.inserted = imp.inserted
             /\ qsos' = qsos]_vars

\* C4: a run that repeats the previous completed run (same file, same user,
\* no store change in between) inserts no row: added = 0.
C4_SecondRunAddsNothing ==
    SecondRun => (imp.inserted = 0 /\ Len(qsos) = obs.startLen)

C7_Counts ==
    imp.pc # "idle"
        => /\ imp.total = Cardinality(WithCall(Files[imp.file]))
           /\ imp.inserted + imp.skipped <= imp.total
           /\ imp.inserted + imp.skipped = Cardinality(Dated(imp.i - 1))

C7_Witness ==
    /\ imp.pc = "done"
    /\ imp.total < Len(Files[imp.file])
    /\ imp.i > imp.total
    /\ imp.inserted + imp.skipped < imp.total
    /\ imp.inserted > 0 /\ imp.skipped > 0

\* C8: once the flag is set with N candidates taken up, no candidate beyond
\* the N-th is checked or inserted, the rows inserted so far stay, and the
\* run ends with added + skipped <= N and total = M, the number of
\* candidates of the file.
C8_Cancellation ==
    obs.cancelN >= 0
        => /\ imp.pc \in {"exists", "insert"} => imp.i <= obs.cancelN
           /\ imp.inserted + imp.skipped <= obs.cancelN
           /\ imp.total = Len(Records)
           /\ Len(qsos) = obs.startLen + imp.inserted

C8_Witness ==
    /\ imp.pc = "done"
    /\ obs.cancelN >= 1 /\ obs.cancelN < imp.total
    /\ imp.inserted >= 1
    /\ imp.i <= imp.total

\* the file holds two records with the same CALL and QSO_DATE and different
\* BAND values
BandPair(file) ==
    /\ Len(file) = 2
    /\ FieldGet(file[1], "CALL", << >>) = FieldGet(file[2], "CALL", << >>)
    /\ FieldGet(file[1], "QSO_DATE", << >>) = FieldGet(file[2], "QSO_DATE", << >>)
    /\ FieldGet(file[1], "BAND", << >>) # FieldGet(file[2], "BAND", << >>)

\* a completed, uncancelled run on such a file into a store that was empty
PairDone ==
    /\ imp.pc = "done" /\ Uncancelled /\ obs.startLen = 0
    /\ BandPair(Files[imp.file])

\* a BAND value names a supported band, whatever its letter case
Supported(b) ==
    \E k \in 1..Len(SUPPORTED_BANDS) :
        StrLower(StrStrip(b)) = SUPPORTED_BANDS[k]

\* two BAND values stand for the same band of the store: the same supported
\* band, or both outside the supported list
SameBand(b1, b2) ==
    IF Supported(b1) /\ Supported(b2)
    THEN StrLower(StrStrip(b1)) = StrLower(StrStrip(b2))
    ELSE ~Supported(b1) /\ ~Supported(b2)

\* C9 as stated: both records of the pair are inserted, added = 2, whatever
\* the two BAND values.
C9_BothInserted == PairDone => imp.inserted = 2

\* C9: both records are inserted exactly when their normalized bands differ;
\* two BAND values with the same normalized band (such as 2m and 70cm, both
\* outside the supported list) give added = 1 and skipped = 1.
C9_DistinctNormalizedBands ==
    PairDone
        => IF ~SameBand(FieldGet(Files[imp.file][1], "BAND", << >>),
                        FieldGet(Files[imp.file][2], "BAND", << >>))
           THEN imp.inserted = 2 /\ imp.skipped = 0 /\ Len(qsos) = 2
           ELSE imp.inserted = 1 /\ imp.skipped = 1 /\ Len(qsos) = 1

C9_Witness ==
    /\ PairDone
    /\ FieldGet(Files[imp.file][1], "BAND", << >>) = <<"2", "m">>
    /\ FieldGet(Files[imp.file][2], "BAND", << >>) = <<"7", "0", "c", "m">>
    /\ imp.inserted = 1

---------------------------------------------------------------------------
(* Properties of the store under all its writers *)

\* C2: the qsos table never holds two rows with the same user callsign,
\* call_worked, qso_date and band, an unset band included.
C2_DedupKeyUnique ==
    \A i, j \in 1..Len(qsos) :
        (/\ qsos[i].callsign = qsos[j].callsign
         /\ qsos[i].call_worked = qsos[j].call_worked
         /\ qsos[i].qso_date = qsos[j].qso_date
         /\ qsos[i].band = qsos[j].band) => i = j

\* C6: the pipeline run of the upload API and the import of the UI, running
\* side by side for the same user, never both insert a row for the same
\* dedup key: the pipeline, having passed its qso_exists check, does not
\* insert a row for a key the UI import has stored a row for meanwhile.
C6_NoDoubleInsert ==
    [][(imp.pc = "insert" /\ imp'.pc = "top")
          => ~(/\ CandRows # {}
               /\ Key(imp.user, Cand.call, Cand.date, Some(Cand.band))
                      \in obs.uiKeys)]_vars

---------------------------------------------------------------------------
(* Progress callbacks of the import pipeline *)

\* files the pipeline is run on with a progress callback: the fixed files and
\* a pair file whose two candidates are both stored
ProgressIds == FixedIds \cup {Len(FixedFiles) + 1}

ProgressNext ==
    \/ \E f \in ProgressIds, u \in Users, flag \in Flags :
          ImportStartProgress(f, u, flag)
    \/ ImportTop
    \/ ImportExists
    \/ ImportInsert
    \/ Cancel

\* the import pipeline run again and again with a progress callback
SpecProgress == ImportInit /\ [][ProgressNext]_vars

\* C21: a finished run with on_progress has called it once for each
\* processed candidate, the inserted ones and the ones skipped as duplicates
\* alike, and an uncancelled run whose last candidate was processed has
\* ended with a callback of 100 percent.
C21_ProgressAfterEach ==
    (imp.pc = "done" /\ imp.on_progress)
        => /\ Len(imp.progress) = imp.inserted + imp.skipped
           /\ (/\ Uncancelled
               /\ imp.total > 0
               /\ Records[imp.total].date # << >>)
                  => /\ imp.progress # << >>
                     /\ imp.progress[Len(imp.progress)] = 100

\* C22: the percentages passed to on_progress within one run never decrease
\* and all lie in 0..100.
C22_ProgressMonotone ==
    \A k \in 1..Len(imp.progress) :
        /\ imp.progress[k] \in 0..100
        /\ k > 1 => imp.progress[k - 1] <= imp.progress[k]

\* a finished run that has called on_progress twice, with different values
C22_Witness ==
    /\ imp.pc = "done"
    /\ imp.on_progress
    /\ Len(imp.progress) = 2
    /\ imp.progress[1] < imp.progress[2]

---------------------------------------------------------------------------
(* Order of the need list *)

\* the ids of the built-in table in the order of Python's string comparison
SortedIds ==
    <<"ALASKA", "AMERICAN_SAMOA", "ANGOLA", "ARGENTINA", "AUSTRIA", "BAHAMAS",
      "BARBADOS", "BELGIUM", "BERMUDA", "BOTSWANA", "BRAZIL", "BULGARIA",
      "CAMBODIA", "CANADA", "CANAL_ZONE", "CAYMAN", "CHILE", "CHINA",
      "COLOMBIA", "COOK_N", "COOK_S", "CORSICA", "COSTA_RICA", "CUBA",
      "CZECH", "CZECHOSLOVAKIA", "DENMARK", "DOMINICAN", "ECUADOR",
      "EL_SALVADOR", "ENGLAND", "ETHIOPIA", "E_GERMANY", "FIJI", "FINLAND",
      "FRANCE", "GALAPAGOS", "GERMANY", "GREENLAND", "GUANTANAMO",
      "GUATEMALA", "GUERNSEY", "HAITI", "HAWAII", "HONDURAS", "HONG_KONG",
      "HUNGARY", "INDIA", "ISLE_OF_MAN", "ITALY", "JAPAN", "JERSEY", "KENYA",
      "KOREA_S", "LAOS", "LUXEMBOURG", "MACAU", "MADAGASCAR", "MALAYSIA_E",
      "MALAYSIA_W", "MEXICO", "MONACO", "NAMIBIA", "NETHERLANDS", "NICARAGUA",
      "NORWAY", "N_IRELAND", "PANAMA", "PARAGUAY", "PERU", "PHILIPPINES",
      "POLAND", "PORTUGAL", "PUERTO_RICO", "RHODESIA", "ROMANIA", "RUSSIA_AS",
      "RUSSIA_EU", "SAAR", "SAMOA", "SARDINIA", "SCOTLAND", "SICILY",
      "SINGAPORE", "SLOVAKIA", "SOUTH_AFRICA", "SPAIN", "SRI_LANKA",
      "ST_PIERRE_MIQUELON", "SWEDEN", "SWITZERLAND", "TAIWAN", "TANZANIA",
      "THAILAND", "TONGA", "TURKS_CAICOS", "UKRAINE", "URUGUAY", "USA",
      "USSR", "US_VIRGIN", "VIETNAM", "VK0_HEARD", "VK0_MACQ",
      "VK9_CHRISTMAS", "VK9_COCOS", "VK9_LORD_HOWE", "VK9_NORFOLK", "VK_MAIN",
      "WALES", "W_GERMANY", "YUGOSLAVIA", "ZIMBABWE", "ZL7_CHATHAM",
      "ZL8_KERMADEC", "ZL9_AUCKLAND", "ZL_MAIN">>

IdRank(id) == CHOOSE k \in 1..Len(SortedIds) : SortedIds[k] = id

\* the characters of band names and calls in code point order
CodeOrder == Digits \o UpperAlpha \o LowerAlpha

CharCode(c) == CHOOSE k \in 1..Len(CodeOrder) : CodeOrder[k] = c

\* Python's s < t on strings of those characters
StrLess(s, t) ==
    \E k \in 1..(Len(t)) :
        /\ k <= Len(s) + 1
        /\ SubSeq(s, 1, k - 1) = SubSeq(t, 1, k - 1)
        /\ k = Len(s) + 1 \/ CharCode(s[k]) < CharCode(t[k])

\* need-list entry a sorts before b or equals it: by entity id, then by band
NeedLeq(a, b) ==
    \/ IdRank(a[1]) < IdRank(b[1])
    \/ a[1] = b[1] /\ (a[3] = b[3] \/ StrLess(a[3], b[3]))

\* C24: the list get_dxcc_need_list returns is sorted by entity id and then
\* by band, whatever the directory and the order of the bands argument.
C24_NeedListSorted ==
    stats.kind = "needs"
        => \A m, n \in 1..Len(stats.needs) :
               m < n => NeedLeq(stats.needs[m], stats.needs[n])

---------------------------------------------------------------------------
(* Properties of the aggregations: statuses, totals, exclusions *)

\* the rows of the in-memory table compute_stats counts, each with what
\* dxcc_from_call returns for it
TableCounted(track_all, bands, include_deleted) ==
    LET tracked  == {k \in 1..Len(all_rows) :
                        band_is_tracked(all_rows[k].band, track_all, bands)}
        resolved == {<<k, dxcc_from_call(all_rows[k].call, DXCC_PREFIX_RULES,
                                         DXCC_ENTITIES)>> : k \in tracked}
    IN  {r \in resolved :
            /\ r[2][1] # None
            /\ include_deleted \/ r[2][3] = Some(TRUE)}

\* the (id, band) pairs of the entries of the need list
NeedPairs == {<<stats.needs[n][1], stats.needs[n][3]>> :
                 n \in 1..Len(stats.needs)}

C26_TotalCount ==
    stats.kind \in {"dashboard", "stats"}
        => stats.total = IF stats.include_deleted
                         THEN Cardinality(DOMAIN DXCC_ENTITIES)
                         ELSE ActiveCount(DXCC_ENTITIES)

\* the entity ids of the user's stored rows, and of the tracked rows of the
\* table, whose call resolves and whose entity is active or, with
\* include_deleted, deleted
StoreEntities(bands, include_deleted) ==
    LET rows == {<<k, RowEntity(k)>> : k \in BandRows(current_user, bands)}
    IN  {r[2][1][1] :
            r \in {q \in rows : q[2][1] # None /\ (include_deleted \/ q[2][3])}}

TableEntities(track_all, bands, include_deleted) ==
    {r[2][1][1] : r \in TableCounted(track_all, bands, include_deleted)}

\* C27: a QSO whose call is unresolved never counts; a QSO of a deleted
\* entity counts for worked, confirmed and the need list exactly when
\* include_deleted is on; with include_deleted off every worked entity is an
\* active entity of the directory.
C27_Exclusion ==
    /\ stats.kind = "dashboard"
          => stats.worked = StoreEntities(stats.bands, stats.include_deleted)
    /\ stats.kind = "stats"
          => stats.worked = TableEntities(stats.track_all, stats.bands,
                                          stats.include_deleted)
    /\ (stats.kind \in {"dashboard", "stats"} /\ ~stats.include_deleted)
          => \A e \in stats.worked \cup stats.confirmed :
                 e \in DOMAIN DXCC_ENTITIES /\ DXCC_ENTITIES[e].active
    /\ stats.kind = "needs"
          => \A c \in Contacts(stats.bands) :
                 (/\ ~c[3]
                  /\ \A o \in Contacts(stats.bands) :
                        o[1] = c[1] /\ o[4] = c[4] => ~o[5])
                     => (<<c[1], c[4]>> \in NeedPairs <=> stats.include_deleted)

\* C29: in compute_stats the worked entities are among the entities that
\* total_dxcc counts, so worked never exceeds total_dxcc, also after
\* load_extended_data has replaced the entity table.
C29_WorkedWithinTotal ==
    stats.kind = "stats"
        => /\ Cardinality(stats.worked) <= stats.total
           /\ stats.worked \subseteq
                  {id \in DOMAIN main_DXCC_ENTITIES :
                      stats.include_deleted \/ main_DXCC_ENTITIES[id].active}
           /\ stats.total =
                  Cardinality({id \in DOMAIN DXCC_ENTITIES :
                                  stats.include_deleted
                                  \/ DXCC_ENTITIES[id].active})

\* C30: in compute_stats needed is disjoint from requested and from
\* confirmed, requested and confirmed are within worked, and the three
\* groups together are worked.
C30_StatusGroups ==
    stats.kind = "stats"
        => /\ stats.needed \cap stats.requested = {}
           /\ stats.needed \cap stats.confirmed = {}
           /\ stats.requested \subseteq stats.worked
           /\ stats.confirmed \subseteq stats.worked
           /\ stats.needed \cup stats.requested \cup stats.confirmed
                  = stats.worked

\* statistics over a table with a requested entity and an entity that is
\* neither requested nor confirmed
C30_Witness ==
    /\ stats.kind = "stats"
    /\ stats.needed # {}
    /\ stats.requested # {}
    /\ Len(all_rows) = 2

---------------------------------------------------------------------------
(* Two users of one store *)

\* the logged-in user of the UI and a user of the upload API
IsoUsers == {current_user, "W1AW"}

\* The upload API imports the one-record file for either user, the logged-in
\* user adds the contact of that file in the UI, edits, deletes and clears,
\* and either user sets a status through update_qso_status.
\* largest number of rows the two users together store
MaxIsoRows == 2

IsoRoom == Len(qsos) < MaxIsoRows

IsoNext ==
    \/ IsoRoom /\ \E u \in IsoUsers : ImportStart(1, u, None)
    \/ ImportTop
    \/ ImportExists
    \/ IsoRoom /\ ImportInsert
    \/ \E u \in IsoUsers, k \in 1..Len(qsos) :
          UpdateStatusAs(u, k, Some("LoTW"))
    \/ IsoRoom /\ add_entry(Str_K1A, DateStr(Raw_20230615), Some("Confirmed"),
                            Some(Str_40m))
    \/ \E k \in 1..Len(all_rows) : delete_entry(k)
    \/ \E k \in 1..Len(all_rows) :
          save_changes(k, Str_K1A, DateStr(Raw_20230615), Some("Requested"),
                       Some(Str_40m))
    \/ clear_all_qsos

SpecIsolation == ImportInit /\ [][IsoNext]_vars

\* the stored rows of a user, in rowid order
RowsOf(rows, u) == SelectSeq(rows, LAMBDA row : row.callsign = u)

\* the step leaves the rows of every user but u as they are
OthersKept(u) ==
    \A v \in IsoUsers \ {u} : RowsOf(qsos', v) = RowsOf(qsos, v)

\* what qso_exists and get_qsos_for_user give for u is what they would give
\* on a store holding the rows of u alone
ReadsOwn ==
    \A u \in IsoUsers :
        /\ get_qsos_for_user(u) =
               [k \in 1..Len(RowsOf(qsos, u)) |->
                   LET r == RowsOf(qsos, u)[k]
                   IN  <<r.prefix, r.country, r.call_worked, r.qso_date,
                         r.qsl_status, r.band>>]
        /\ \A k \in 1..Len(qsos) :
               LET own  == RowsOf(qsos, u)
                   hits == {j \in 1..Len(own) :
                               /\ own[j].call_worked = qsos[k].call_worked
                               /\ own[j].qso_date = qsos[k].qso_date
                               /\ SqlEq(own[j].band, qsos[k].band)}
               IN  qso_exists(u, qsos[k].call_worked, qsos[k].qso_date,
                              qsos[k].band)
                       = IF hits = {} THEN None
                         ELSE own[CHOOSE j \in hits :
                                     \A i \in hits : j <= i].qsl_status

\* C28: a store operation invoked for user U (the import pipeline, add_qso,
\* delete_qso, update_qso, update_qso_status, clear_all_qsos) inserts, changes
\* and deletes no row of another user, and qso_exists and get_qsos_for_user
\* for U reflect no row of another user.
C28_UserIsolation ==
    /\ []ReadsOwn
    /\ [][/\ (qsos' # qsos /\ imp' # imp) => OthersKept(imp.user)
          /\ (qsos' # qsos /\ all_rows' # all_rows) => OthersKept(current_user)
          /\ \A u \in IsoUsers :
                (\E k \in 1..Len(qsos) : UpdateStatusAs(u, k, Some("LoTW")))
                    => OthersKept(u)]_vars

\* the row the upload API stored for W1AW is in the store as imported, the
\* logged-in user has stored the same contact and removed it again
C28_Witness ==
    /\ imp.pc = "done"
    /\ imp.user = "W1AW"
    /\ imp.inserted = 1
    /\ Len(qsos) = 1
    /\ qsos[1].callsign = "W1AW"
    /\ qsos[1].qsl_status = Some("Confirmed")
    /\ all_rows = << >>
    /\ ui.pc = "idle"
    /\ obs.dirty

=============================================================================
